---- MODULE Spec2Model ----
(***************************************************************************)
(* Model of the Pallas multi-scalar-multiplication pipeline of             *)
(* kimchi-webgpu: the limb arithmetic and curve operations of              *)
(* src/gpu/256bit/helpers.ts, the six compute passes of the Pippenger      *)
(* shaders (src/unnamed/part_002) and the host orchestrator                *)
(* pippengerMSMPallas (src/gpu/256bit/pallas/to_montgomery.spec.ts).       *)
(*                                                                         *)
(* Scaling.  TLC integers are 32 bits wide, so the machine word is scaled: *)
(* a limb has LimbBits = 2*HalfBits bits instead of 32 (the two halves of  *)
(* mul_add_carry have HalfBits bits instead of 16), an element has         *)
(* NumLimbs limbs instead of 8, a workgroup has 2^WgBits threads instead   *)
(* of 64, and the base field is F_7 instead of the 255-bit Pallas field.   *)
(* y^2 = x^3 + 5 over F_7 has 7 points, a group of prime order like        *)
(* Pallas, and (0,0) is not on it.  R, R^2 mod p, -p^-1 mod 2^LimbBits and *)
(* p-2 are derived from p by their defining equations.  All wrap-around    *)
(* arithmetic of the shader is kept, modulo 2^LimbBits.  The field         *)
(* functions on their own (SpecOps) run under a second modulus, FIELD_P,   *)
(* which fills all NumLimbs limbs as the Pallas prime fills its eight.     *)
(***************************************************************************)
EXTENDS Integers, Sequences, FiniteSets, TLC

\* ------------------------------------------------------------------ bounds
HalfBits == 2
NumLimbs == 3
WgBits == 1

LimbBits == 2 * HalfBits
HALF == 2 ^ HalfBits
LIMB == 2 ^ LimbBits
LimbIdx == 0 .. (NumLimbs - 1)
ScalarBits == NumLimbs * LimbBits
MontR == LIMB ^ NumLimbs

\* ------------------------------------------------- host marshalling helpers
bigint256ToLimbsBigEndian(value) ==
    [i \in LimbIdx |-> (value \div (LIMB ^ (NumLimbs - 1 - i))) % LIMB]
bigint256ToLimbs(value) ==
    [i \in LimbIdx |-> (value \div (LIMB ^ i)) % LIMB]

RECURSIVE limbsToBigintFrom(_, _, _)
limbsToBigintFrom(limbs, i, result) ==
    IF i < 0 THEN result
    ELSE limbsToBigintFrom(limbs, i - 1, result * LIMB + limbs[i])

limbs256ToBigint(limbs) == limbsToBigintFrom(limbs, NumLimbs - 1, 0)

BYTES_PER_LIMB == 4
BYTES_PER_ELEMENT_256 == NumLimbs * BYTES_PER_LIMB

ZeroLimbs == [i \in LimbIdx |-> 0]
OneLimbs == [i \in LimbIdx |-> IF i = 0 THEN 1 ELSE 0]

\* --------------------------------------------------------- curve constants
PALLAS_P_INT == 7
PALLAS_P == bigint256ToLimbs(PALLAS_P_INT)
PALLAS_R2 ==
    bigint256ToLimbs(((MontR % PALLAS_P_INT) * (MontR % PALLAS_P_INT)) % PALLAS_P_INT)
PALLAS_MONT_INV32 ==
    CHOOSE m \in 0 .. (LIMB - 1) : (m * (PALLAS_P_INT % LIMB) + 1) % LIMB = 0
PALLAS_P_MINUS_2 == bigint256ToLimbs(PALLAS_P_INT - 2)
CURVE_B == 5

\* ------------------------------------------------------------ arithmetic
\* u32 helpers: every shader operation wraps modulo the limb size.
U32(x) == x % LIMB
Shr(x, s) == x \div (2 ^ s)
Shl(x, s) == (x * (2 ^ s)) % LIMB
B2U(b) == IF b THEN 1 ELSE 0

RECURSIVE gteFrom(_, _, _)
gteFrom(a, b, i) ==
    IF i < 0 THEN TRUE
    ELSE IF a[i] > b[i] THEN TRUE
    ELSE IF a[i] < b[i] THEN FALSE
    ELSE gteFrom(a, b, i - 1)

gte_256(a, b) == gteFrom(a, b, NumLimbs - 1)

\* Loops of the shader are recursive operators over the loop's variables,
\* held in one record so that each iteration is evaluated before the next.
RECURSIVE subNoBorrowFrom(_, _, _)
subNoBorrowFrom(s, a, b) ==
    IF s.i >= NumLimbs THEN s.result
    ELSE IF a[s.i] >= U32(b[s.i] + s.borrow)
         THEN subNoBorrowFrom(
                  [i |-> s.i + 1,
                   result |-> [s.result EXCEPT
                       ![s.i] = U32(a[s.i] + 2 * LIMB - b[s.i] - s.borrow)],
                   borrow |-> 0], a, b)
         ELSE LET temp == U32((LIMB - 1) + 2 * LIMB - b[s.i] - s.borrow + 1)
              IN  subNoBorrowFrom(
                      [i |-> s.i + 1,
                       result |-> [s.result EXCEPT ![s.i] = U32(temp + a[s.i])],
                       borrow |-> 1], a, b)

sub_no_borrow_256(a, b) ==
    subNoBorrowFrom([i |-> 0, result |-> ZeroLimbs, borrow |-> 0], a, b)

\* A local that the code reads more than once is the parameter of a helper
\* operator, so that the expression it names is written once.
addLimbsStepLowCarryOnly(s, sum_low, a) ==
    [i |-> s.i + 1,
     result |-> [s.result EXCEPT ![s.i] = U32(sum_low + s.carry)],
     carry |-> B2U(sum_low < a[s.i])]
addLimbsStep(s, sum_low, a) ==
    [i |-> s.i + 1,
     result |-> [s.result EXCEPT ![s.i] = U32(sum_low + s.carry)],
     carry |-> B2U(sum_low < a[s.i]) + B2U(U32(sum_low + s.carry) < sum_low)]

RECURSIVE addLimbsFrom(_, _, _)
addLimbsFrom(s, a, b) ==
    IF s.i >= NumLimbs THEN s
    ELSE addLimbsFrom(addLimbsStep(s, U32(a[s.i] + b[s.i]), a), a, b)

\* "if (carry != 0u || gte_256(result, p)) result = sub_no_borrow_256(result, p)"
addReduce(s, p) ==
    IF s.carry # 0 \/ gte_256(s.result, p)
    THEN sub_no_borrow_256(s.result, p)
    ELSE s.result

add_mod_256(a, b, p) ==
    addReduce(addLimbsFrom([i |-> 0, result |-> ZeroLimbs, carry |-> 0], a, b), p)

sub_mod_256(a, b, p) ==
    IF gte_256(a, b) THEN sub_no_borrow_256(a, b)
    ELSE sub_no_borrow_256(p, sub_no_borrow_256(b, a))

\* mul_add_carry, local by local.  Returns the limb and the updated carry
\* (the shader's *carry).
macProducts(a_lo, a_hi, b_lo, b_hi) ==
    [p0 |-> U32(a_lo * b_lo), p1 |-> U32(a_lo * b_hi),
     p2 |-> U32(a_hi * b_lo), p3 |-> U32(a_hi * b_hi)]
macMid(e) ==
    [p0 |-> e.p0, p1 |-> e.p1, p3 |-> e.p3, mid |-> U32(e.p1 + e.p2)]
macLow(e) ==
    [p0 |-> e.p0, p3 |-> e.p3, mid |-> e.mid, mid_carry |-> B2U(e.mid < e.p1),
     low |-> U32(e.p0 + Shl(e.mid, HalfBits))]
macHighNoMidCarry(e) ==
    [low |-> e.low,
     high |-> U32(e.p3 + Shr(e.mid, HalfBits) + B2U(e.low < e.p0))]
macHigh(e) ==
    [low |-> e.low,
     high |-> U32(e.p3 + Shr(e.mid, HalfBits) + Shl(e.mid_carry, HalfBits)
                  + B2U(e.low < e.p0))]
macAcc(e, acc) ==
    [low |-> e.low, high |-> e.high, temp |-> U32(e.low + acc)]
macCarry(e, carry) ==
    [high |-> e.high, temp |-> e.temp, temp_carry |-> B2U(e.temp < e.low),
     final_res |-> U32(e.temp + carry)]
macResult(e) ==
    [res |-> e.final_res,
     carry |-> U32(e.high + e.temp_carry + B2U(e.final_res < e.temp))]

mul_add_carry(a, b, acc, carry) ==
    macResult(
        macCarry(
            macAcc(
                macHigh(macLow(macMid(
                    macProducts(a % HALF, Shr(a, HalfBits), b % HALF, Shr(b, HalfBits))))),
                acc),
            carry))

\* "let high = p3 + (mid >> 16u) + mid_carry + low_carry;" of the copies in
\* arithmetic.wgsl and in the bundled shader
macHighCarryUnshifted(e) ==
    [low |-> e.low,
     high |-> U32(e.p3 + Shr(e.mid, HalfBits) + e.mid_carry + B2U(e.low < e.p0))]

mul_add_carry256(a, b, acc, carry) ==
    macResult(
        macCarry(
            macAcc(
                macHighCarryUnshifted(macLow(macMid(
                    macProducts(a % HALF, Shr(a, HalfBits), b % HALF, Shr(b, HalfBits))))),
                acc),
            carry))

\* mul_add_carry of the bundled shader
mul_add_carry_bundled(a, b, acc, carry) ==
    macResult(
        macCarry(
            macAcc(
                macHighCarryUnshifted(macLow(macMid(
                    macProducts(a % HALF, Shr(a, HalfBits), b % HALF, Shr(b, HalfBits))))),
                acc),
            carry))

WideIdx == 0 .. (2 * NumLimbs - 1)

\* "x[idx] = mul_add_carry(.., &carry)" in an inner loop over j
macStoreCarryLost(s, r, idx) ==
    [j |-> s.j + 1, limbs |-> [s.limbs EXCEPT ![idx] = r.res], carry |-> 0]
macStore(s, r, idx) ==
    [j |-> s.j + 1, limbs |-> [s.limbs EXCEPT ![idx] = r.res], carry |-> r.carry]

\* inner loop of montgomery_reduce_256: temp += m * p at offset i
RECURSIVE reduceInner(_, _, _, _)
reduceInner(s, m, p, i) ==
    IF s.j >= NumLimbs THEN s
    ELSE reduceInner(
             macStore(s, mul_add_carry(m, p[s.j], s.limbs[i + s.j], s.carry), i + s.j),
             m, p, i)

propagateStepCarryLost(s, sum) ==
    [k |-> s.k + 1, temp |-> [s.temp EXCEPT ![s.k] = sum], carry |-> 0]
propagateStep(s, sum) ==
    [k |-> s.k + 1, temp |-> [s.temp EXCEPT ![s.k] = sum],
     carry |-> B2U(sum < s.temp[s.k])]

\* carry propagation loop of montgomery_reduce_256
RECURSIVE reducePropagate(_)
reducePropagate(s) ==
    IF s.k >= 2 * NumLimbs \/ s.carry = 0 THEN s.temp
    ELSE reducePropagate(propagateStep(s, U32(s.temp[s.k] + s.carry)))

reduceOuterStep(s, r) ==
    [i |-> s.i + 1,
     temp |-> reducePropagate([k |-> s.i + NumLimbs, temp |-> r.limbs,
                               carry |-> r.carry])]

RECURSIVE reduceOuter(_, _, _)
reduceOuter(s, mont_inv32, p) ==
    IF s.i >= NumLimbs THEN s.temp
    ELSE reduceOuter(
             reduceOuterStep(
                 s, reduceInner([j |-> 0, limbs |-> s.temp, carry |-> 0],
                                U32(s.temp[s.i] * mont_inv32), p, s.i)),
             mont_inv32, p)

\* "if (gte_256(result, p)) result = sub_no_borrow_256(result, p)"
reduceFinalNoSubtract(result, p) == result
reduceFinal(result, p) ==
    IF gte_256(result, p) THEN sub_no_borrow_256(result, p) ELSE result

reduceUpper(temp) == [i \in LimbIdx |-> temp[i + NumLimbs]]

montgomery_reduce_256(t, mont_inv32, p) ==
    reduceFinal(reduceUpper(reduceOuter([i |-> 0, temp |-> t], mont_inv32, p)), p)

RECURSIVE mulInner(_, _, _, _)
mulInner(s, a, b, i) ==
    IF s.j >= NumLimbs THEN [s.limbs EXCEPT ![i + NumLimbs] = s.carry]
    ELSE mulInner(
             macStore(s, mul_add_carry(a[i], b[s.j], s.limbs[i + s.j], s.carry), i + s.j),
             a, b, i)

RECURSIVE mulOuter(_, _, _)
mulOuter(s, a, b) ==
    IF s.i >= NumLimbs THEN s.product
    ELSE mulOuter([i |-> s.i + 1,
                   product |-> mulInner([j |-> 0, limbs |-> s.product,
                                         carry |-> 0], a, b, s.i)], a, b)

mont_mul_256(a, b, mont_inv32, p) ==
    montgomery_reduce_256(
        mulOuter([i |-> 0, product |-> [i \in WideIdx |-> 0]], a, b),
        mont_inv32, p)

to_montgomery_256(a, r2, mont_inv32, p) == mont_mul_256(a, r2, mont_inv32, p)

fromMontgomeryUnreduced(a, mont_inv32, p) == a
from_montgomery_256(a, mont_inv32, p) == mont_mul_256(a, OneLimbs, mont_inv32, p)

\* the two nested loops of mod_inverse_mont_256 (limbs of p_minus_2, bits of
\* a limb) as one loop over the bit position n = limb_idx * LimbBits + bit
RECURSIVE invLoop(_, _, _, _)
invLoop(s, mont_inv32, p, p_minus_2) ==
    IF s.n >= NumLimbs * LimbBits THEN s.result
    ELSE invLoop([n |-> s.n + 1,
                  result |-> IF Shr(p_minus_2[s.n \div LimbBits], s.n % LimbBits) % 2 = 1
                             THEN mont_mul_256(s.result, s.base, mont_inv32, p)
                             ELSE s.result,
                  base |-> mont_mul_256(s.base, s.base, mont_inv32, p)],
                 mont_inv32, p, p_minus_2)

modInverseFromBit1(a, r2, mont_inv32, p, p_minus_2) ==
    invLoop([n |-> 1,
             result |-> to_montgomery_256(OneLimbs, r2, mont_inv32, p),
             base |-> a], mont_inv32, p, p_minus_2)
mod_inverse_mont_256(a, r2, mont_inv32, p, p_minus_2) ==
    invLoop([n |-> 0,
             result |-> to_montgomery_256(OneLimbs, r2, mont_inv32, p),
             base |-> a], mont_inv32, p, p_minus_2)

\* ------------------------------------------------------------- curve ops
ProjectivePoint256(x, y, z) == [x |-> x, y |-> y, z |-> z]
Point256(x, y) == [x |-> x, y |-> y]
IDENTITY_LIMBS_256 == ZeroLimbs

is_infinity_proj_256(P) == \A i \in LimbIdx : P.z[i] = 0

to_projective_256(x, y, r2, mont_inv32, p) ==
    ProjectivePoint256(to_montgomery_256(x, r2, mont_inv32, p),
                       to_montgomery_256(y, r2, mont_inv32, p),
                       to_montgomery_256(OneLimbs, r2, mont_inv32, p))

\* "Q.x = P.x * z_inv; Q.y = P.y * z_inv" and the conversion out of
\* Montgomery form
affineFrom(P, z_inv, mont_inv32, p) ==
    Point256(from_montgomery_256(mont_mul_256(P.x, z_inv, mont_inv32, p), mont_inv32, p),
             from_montgomery_256(mont_mul_256(P.y, z_inv, mont_inv32, p), mont_inv32, p))

to_affine_256(P, r2, mont_inv32, p, p_minus_2) ==
    IF is_infinity_proj_256(P) THEN Point256(ZeroLimbs, ZeroLimbs)
    ELSE affineFrom(P, mod_inverse_mont_256(P.z, r2, mont_inv32, p, p_minus_2),
                    mont_inv32, p)

\* point_double_proj_256 and point_add_proj_256 are straight-line code over
\* field elements.  Each is the list of its statements <<operation, target,
\* left, right>> in source order, run over the function's locals.
Locals == {"Px", "Py", "Pz", "Qx", "Qy", "Qz", "xx", "yy", "yyyy", "zz", "s", "m",
           "t", "tmp", "y3", "yyyy8", "z3", "z1z1", "z2z2", "u1", "u2", "s1", "s2",
           "h", "i", "j", "r", "v", "x3", "s1j", "s1j2"}

FieldOp(ins, env, mont_inv32, p) ==
    IF ins[1] = "mul" THEN mont_mul_256(env[ins[3]], env[ins[4]], mont_inv32, p)
    ELSE IF ins[1] = "add" THEN add_mod_256(env[ins[3]], env[ins[4]], p)
    ELSE sub_mod_256(env[ins[3]], env[ins[4]], p)

RECURSIVE RunSteps(_, _, _, _)
RunSteps(s, steps, mont_inv32, p) ==
    IF s.pc > Len(steps) THEN s.env
    ELSE RunSteps(
             [pc |-> s.pc + 1,
              env |-> [s.env EXCEPT ![steps[s.pc][2]] =
                          FieldOp(steps[s.pc], s.env, mont_inv32, p)]],
             steps, mont_inv32, p)

LoadLocals(P, Q) ==
    [n \in Locals |->
        IF n = "Px" THEN P.x ELSE IF n = "Py" THEN P.y ELSE IF n = "Pz" THEN P.z
        ELSE IF n = "Qx" THEN Q.x ELSE IF n = "Qy" THEN Q.y ELSE IF n = "Qz" THEN Q.z
        ELSE ZeroLimbs]

POINT_DOUBLE_STEPS ==
    << <<"mul", "xx", "Px", "Px">>,
       <<"mul", "yy", "Py", "Py">>,
       <<"mul", "yyyy", "yy", "yy">>,
       <<"mul", "zz", "Pz", "Pz">>,
       <<"add", "s", "Px", "yy">>,
       <<"mul", "s", "s", "s">>,
       <<"sub", "s", "s", "xx">>,
       <<"sub", "s", "s", "yyyy">>,
       <<"add", "s", "s", "s">>,
       <<"add", "m", "xx", "xx">>,
       <<"add", "m", "m", "xx">>,
       <<"mul", "t", "m", "m">>,
       <<"add", "tmp", "s", "s">>,
       <<"sub", "t", "t", "tmp">>,
       <<"sub", "y3", "s", "t">>,
       <<"mul", "y3", "m", "y3">>,
       <<"add", "yyyy8", "yyyy", "yyyy">>,
       <<"add", "yyyy8", "yyyy8", "yyyy8">>,
       <<"add", "yyyy8", "yyyy8", "yyyy8">>,
       <<"sub", "y3", "y3", "yyyy8">>,
       <<"add", "z3", "Py", "Pz">>,
       <<"mul", "z3", "z3", "z3">>,
       <<"sub", "z3", "z3", "yy">>,
       <<"sub", "z3", "z3", "zz">> >>

\* Q.x = t, Q.y = y3 - 8 yyyy, Q.z = z3
doubleResult(env) == ProjectivePoint256(env["t"], env["y3"], env["z3"])

point_double_proj_256(P, r2, mont_inv32, p) ==
    IF is_infinity_proj_256(P) THEN P
    ELSE doubleResult(RunSteps([pc |-> 1, env |-> LoadLocals(P, P)],
                               POINT_DOUBLE_STEPS, mont_inv32, p))

\* point_add_proj_256 up to the test "same_x && same_y"
POINT_ADD_HEAD ==
    << <<"mul", "z1z1", "Pz", "Pz">>,
       <<"mul", "z2z2", "Qz", "Qz">>,
       <<"mul", "u1", "Px", "z2z2">>,
       <<"mul", "u2", "Qx", "z1z1">>,
       <<"mul", "tmp", "Qz", "z2z2">>,
       <<"mul", "s1", "Py", "tmp">>,
       <<"mul", "tmp", "Pz", "z1z1">>,
       <<"mul", "s2", "Qy", "tmp">> >>

\* point_add_proj_256 after the test
POINT_ADD_TAIL ==
    << <<"sub", "h", "u2", "u1">>,
       <<"add", "i", "h", "h">>,
       <<"mul", "i", "i", "i">>,
       <<"mul", "j", "h", "i">>,
       <<"sub", "r", "s2", "s1">>,
       <<"add", "r", "r", "r">>,
       <<"mul", "v", "u1", "i">>,
       <<"mul", "x3", "r", "r">>,
       <<"sub", "x3", "x3", "j">>,
       <<"add", "tmp", "v", "v">>,
       <<"sub", "x3", "x3", "tmp">>,
       <<"sub", "y3", "v", "x3">>,
       <<"mul", "y3", "r", "y3">>,
       <<"mul", "s1j", "s1", "j">>,
       <<"add", "s1j2", "s1j", "s1j">>,
       <<"sub", "y3", "y3", "s1j2">>,
       <<"add", "z3", "Pz", "Qz">>,
       <<"mul", "z3", "z3", "z3">>,
       <<"sub", "z3", "z3", "z1z1">>,
       <<"sub", "z3", "z3", "z2z2">>,
       <<"mul", "z3", "z3", "h">> >>

addResult(env) == ProjectivePoint256(env["x3"], env["y3"], env["z3"])

\* "if (same_x && same_y) return point_double_proj_256(P, ...)"
addBranch(env, P, r2, mont_inv32, p) ==
    IF (\A i \in LimbIdx : env["u1"][i] = env["u2"][i])
       /\ (\A i \in LimbIdx : env["s1"][i] = env["s2"][i])
    THEN point_double_proj_256(P, r2, mont_inv32, p)
    ELSE addResult(RunSteps([pc |-> 1, env |-> env], POINT_ADD_TAIL, mont_inv32, p))

pointAddNoIdentityQ(P, Q, r2, mont_inv32, p) ==
    IF is_infinity_proj_256(P) THEN Q
    ELSE addBranch(RunSteps([pc |-> 1, env |-> LoadLocals(P, Q)],
                            POINT_ADD_HEAD, mont_inv32, p),
                   P, r2, mont_inv32, p)
point_add_proj_256(P, Q, r2, mont_inv32, p) ==
    IF is_infinity_proj_256(P) THEN Q
    ELSE IF is_infinity_proj_256(Q) THEN P
    ELSE addBranch(RunSteps([pc |-> 1, env |-> LoadLocals(P, Q)],
                            POINT_ADD_HEAD, mont_inv32, p),
                   P, r2, mont_inv32, p)

\* the two nested loops of scalar_mul_256 (limbs of k, bits of a limb) as one
\* loop over the bit position n = limb_idx * LimbBits + bit
RECURSIVE smulLoop(_, _, _, _, _)
smulLoop(s, k, r2, mont_inv32, p) ==
    IF s.n >= NumLimbs * LimbBits THEN s.Q
    ELSE LET bits == Shr(k[s.n \div LimbBits], s.n % LimbBits)
         IN  smulLoop([n |-> s.n + 1,
                       Q |-> IF bits % 2 = 1
                             THEN point_add_proj_256(s.Q, s.base, r2, mont_inv32, p)
                             ELSE s.Q,
                       base |-> point_double_proj_256(s.base, r2, mont_inv32, p)],
                      k, r2, mont_inv32, p)

scalar_mul_256(k, P_x, P_y, r2, mont_inv32, p, p_minus_2) ==
    LET P == to_projective_256(P_x, P_y, r2, mont_inv32, p)
        Q0 == ProjectivePoint256(ZeroLimbs, ZeroLimbs, ZeroLimbs)
    IN  to_affine_256(smulLoop([n |-> 0, Q |-> Q0, base |-> P], k, r2, mont_inv32, p),
                      r2, mont_inv32, p, p_minus_2)

curve_scalar_mul(k, P_x, P_y) ==
    scalar_mul_256(k, P_x, P_y, PALLAS_R2, PALLAS_MONT_INV32, PALLAS_P,
                   PALLAS_P_MINUS_2)

\* --------------------------------------------- affine reference group law
\* Chord-and-tangent addition on y^2 = x^3 + 5 over F_p, on integer pairs;
\* <<0, 0>> stands for the identity.  Used only to state the claims.
FieldInv(a) == CHOOSE b \in 0 .. (PALLAS_P_INT - 1) : (a * b) % PALLAS_P_INT = 1
FMod(a) == ((a % PALLAS_P_INT) + PALLAS_P_INT) % PALLAS_P_INT
RefIdentity == <<0, 0>>
OnCurve(A) == (A[2] * A[2]) % PALLAS_P_INT
                 = (A[1] * A[1] * A[1] + CURVE_B) % PALLAS_P_INT
CurvePoints ==
    {A \in (0 .. (PALLAS_P_INT - 1)) \X (0 .. (PALLAS_P_INT - 1)) : OnCurve(A)}

RefAdd(A, B) ==
    IF A = RefIdentity THEN B
    ELSE IF B = RefIdentity THEN A
    ELSE IF A[1] = B[1] /\ (A[2] + B[2]) % PALLAS_P_INT = 0 THEN RefIdentity
    ELSE LET l == IF A[1] = B[1]
                  THEN FMod(3 * A[1] * A[1] * FieldInv(FMod(2 * A[2])))
                  ELSE FMod((B[2] - A[2]) * FieldInv(FMod(B[1] - A[1])))
             x == FMod(l * l - A[1] - B[1])
         IN  <<x, FMod(l * (A[1] - x) - A[2])>>

RefDouble(A) == RefAdd(A, A)

RECURSIVE RefMul(_, _)
RefMul(k, A) ==
    IF k = 0 THEN RefIdentity
    ELSE IF k % 2 = 1 THEN RefAdd(RefMul(k - 1, A), A)
    ELSE RefDouble(RefMul(k \div 2, A))

\* sum over i of scalars[i] * P[i]
RECURSIVE RefMSM(_, _)
RefMSM(scalars, P) ==
    IF scalars = <<>> THEN RefIdentity
    ELSE RefAdd(RefMul(Head(scalars), Head(P)), RefMSM(Tail(scalars), Tail(P)))

AffineOf(Q) == <<limbs256ToBigint(Q.x), limbs256ToBigint(Q.y)>>

\* ------------------------------------------------------------ MSM bounds
MaxN == 3
MaxW == 3
MaxK == 4

WORKGROUP_SIZE == 2 ^ WgBits
MIN_WIDTH_BITS == 1
MAX_WIDTH_BITS == 22
DEFAULT_WIDTH_BITS == 8

CeilDiv(a, b) == (a + b - 1) \div b
Min(a, b) == IF a < b THEN a ELSE b

\* ------------------------------------------------------------- the state
VARIABLES
    inp,      \* arguments of the current call: scalars, points, width, device limit
    call,     \* number of the current call (1 or 2) and the first call's result
    pc,       \* position of the host in pippengerMSMPallas
    loc,      \* host locals
    objs,     \* device objects created so far, buffers destroyed, buffers mapped
    q,        \* buffers the host fills through the queue: k, x, y and the uniforms
    mem,      \* storage buffers the passes write
    cmds,     \* commands encoded in the command encoder
    gpu,      \* submits so far and the next command the device executes
    result,   \* the value the call returned
    cv,       \* inputs and outputs of the curve-operation harness
    fv        \* inputs and outputs of the field-operation harness

vars == <<inp, call, pc, loc, objs, q, mem, cmds, gpu, result, cv, fv>>

IdentityPoint == ProjectivePoint256(IDENTITY_LIMBS_256, IDENTITY_LIMBS_256,
                                    IDENTITY_LIMBS_256)
ZeroBuffer(len, v) == [i \in 0 .. (len - 1) |-> v]

\* What a read past the end of an array may return: WGSL leaves it to the
\* implementation, which clamps the index or yields zero.
OobModes == {"zero", "clamp"}
LoadLimb(limbs, i, oob) ==
    IF i < NumLimbs THEN limbs[i]
    ELSE IF oob = "zero" THEN 0 ELSE limbs[NumLimbs - 1]
LoadElem(buf, len, i, zero, oob) ==
    IF i < len THEN buf[i]
    ELSE IF oob = "zero" THEN zero ELSE buf[len - 1]

padd(P, Q) == point_add_proj_256(P, Q, PALLAS_R2, PALLAS_MONT_INV32, PALLAS_P)
pdbl(P) == point_double_proj_256(P, PALLAS_R2, PALLAS_MONT_INV32, PALLAS_P)

\* ----------------------------------------------------------- the passes
\* Pass A main: thread idx converts x[idx], y[idx]; arrayLength(&x) is the
\* length of the bound buffer.
PassA(m, qq, wg, len) ==
    [m EXCEPT !.PP =
        [idx \in 0 .. (len - 1) |->
            IF idx < wg * WORKGROUP_SIZE
            THEN to_projective_256(qq.Px[idx], qq.Py[idx], PALLAS_R2,
                                   PALLAS_MONT_INV32, PALLAS_P)
            ELSE m.PP[idx]]]

WindowValueIsBucket(k, bucket_idx, BUCKET_WIDTH_BITS, oob) == bucket_idx

WindowValueLowLimbOnly(k, bucket_idx, BUCKET_WIDTH_BITS, oob) ==
    LET bit_offset == bucket_idx * BUCKET_WIDTH_BITS
        limb_index == bit_offset \div LimbBits
        bit_in_limb == bit_offset % LimbBits
        mask == (2 ^ BUCKET_WIDTH_BITS) - 1
    IN  Shr(LoadLimb(k, limb_index, oob), bit_in_limb) % (mask + 1)

\* Bi1: window extraction
WindowValue(k, bucket_idx, BUCKET_WIDTH_BITS, oob) ==
    LET bit_offset == bucket_idx * BUCKET_WIDTH_BITS
        limb_index == bit_offset \div LimbBits
        bit_in_limb == bit_offset % LimbBits
        mask == (2 ^ BUCKET_WIDTH_BITS) - 1
    IN  IF bit_in_limb + BUCKET_WIDTH_BITS <= LimbBits
        THEN Shr(LoadLimb(k, limb_index, oob), bit_in_limb) % (mask + 1)
        ELSE LET bits_in_first_limb == LimbBits - bit_in_limb
                 low_bits == Shr(LoadLimb(k, limb_index, oob), bit_in_limb)
                 high_bits == Shl(LoadLimb(k, limb_index + 1, oob), bits_in_first_limb)
                 \* low_bits | high_bits: the two have no bit in common
                 ored == low_bits + high_bits
             IN  ored % (mask + 1)

\* Bi1: the indices of the limbs of k[idx] the window extraction reads
LimbsRead(bucket_idx, BUCKET_WIDTH_BITS) ==
    LET bit_offset == bucket_idx * BUCKET_WIDTH_BITS
        limb_index == bit_offset \div LimbBits
        bit_in_limb == bit_offset % LimbBits
    IN  IF bit_in_limb + BUCKET_WIDTH_BITS <= LimbBits THEN {limb_index}
        ELSE {limb_index, limb_index + 1}

\* tree reduction "while (stride > 0u)" of Bi1, C, D and E over the threads
\* with index < stride; base is the index of the workgroup's first thread as
\* the pass compares it (Bi1 compares the global index).
RECURSIVE TreeReduce(_, _)
TreeReduce(s, base) ==
    IF s.stride = 0 THEN s.arr
    ELSE TreeReduce(
             [stride |-> s.stride \div 2,
              arr |-> [t \in 0 .. (WORKGROUP_SIZE - 1) |->
                         IF base + t < s.stride
                         THEN padd(s.arr[t], s.arr[t + s.stride])
                         ELSE s.arr[t]]], base)

\* Bi1 main, workgroup 0: the shared array after the reduction.  A thread
\* past arrayLength(&k) returns before its store and leaves the zero the
\* workgroup memory starts with.
Bi1Slot(m, qq, len, w, oob, t) ==
    IF t >= len THEN IdentityPoint
    ELSE IF WindowValue(qq.k[t], qq.bucketIdx, w, oob) = qq.bucketIdx
         THEN m.PP[t] ELSE IdentityPoint

Bi1Workgroup(m, qq, len, w, oob) ==
    LET WGL == [t \in 0 .. (WORKGROUP_SIZE - 1) |-> Bi1Slot(m, qq, len, w, oob, t)]
    IN  TreeReduce([stride |-> WORKGROUP_SIZE \div 2, arr |-> WGL], 0)

\* Bi1 dispatch.  The shader indexes the 64-entry shared array and guards the
\* reduction and the store to WGG by the GLOBAL idx: in a workgroup g >= 1
\* every store to WGL is out of bounds, no thread has idx < stride and none
\* has idx == 0, so only workgroup 0 stores to WGG.
PassBi1(m, qq, wg, len, w, oob) ==
    [m EXCEPT !.WGG =
        [g \in DOMAIN m.WGG |->
            IF g < wg /\ g * WORKGROUP_SIZE = 0
            THEN Bi1Workgroup(m, qq, len, w, oob)[0]
            ELSE m.WGG[g]]]

\* Bi2's reduction loop: "while (stride >= 1u) { half = stride >> 1u; ... }".
\* No barrier separates the loads from the first round, so in that round the
\* slot of another thread may still hold the initial zero (stale).
RECURSIVE TreeReduceBi2(_, _)
TreeReduceBi2(s, stale) ==
    IF s.stride < 1 THEN s.arr
    ELSE LET half == s.stride \div 2
         IN  TreeReduceBi2(
                 [stride |-> half, first |-> FALSE,
                  arr |-> [t \in 0 .. (WORKGROUP_SIZE - 1) |->
                             IF t < half
                             THEN padd(s.arr[t],
                                       IF s.first /\ stale THEN IdentityPoint
                                       ELSE s.arr[t + half])
                             ELSE s.arr[t]]], stale)

BufLen(buf) == Cardinality(DOMAIN buf)

\* One workgroup of a reducing pass (Bi2, D, E) over buffer buf with uniform
\* n: buf after local thread 0 stored the reduction to buf[workgroup_idx], or
\* buf unchanged when the workgroup returns early.
ReduceWorkgroup(buf, n, g, bi2, stale, oob) ==
    LET workgroups_needed == CeilDiv(n, WORKGROUP_SIZE)
        WGL == [t \in 0 .. (WORKGROUP_SIZE - 1) |->
                   IF g * WORKGROUP_SIZE + t >= n THEN IdentityPoint
                   ELSE LoadElem(buf, BufLen(buf), g * WORKGROUP_SIZE + t,
                                 IdentityPoint, oob)]
        red == IF bi2
               THEN TreeReduceBi2([stride |-> WORKGROUP_SIZE \div 2,
                                   first |-> TRUE, arr |-> WGL], stale)
               ELSE TreeReduce([stride |-> WORKGROUP_SIZE \div 2, arr |-> WGL], 0)
    IN  IF g >= workgroups_needed \/ g >= BufLen(buf) THEN buf
        ELSE [buf EXCEPT ![g] = red[0]]

\* The workgroups of one dispatch, one after the other in the given order.
RECURSIVE ReduceDispatch(_, _, _, _, _)
ReduceDispatch(s, n, bi2, stale, oob) ==
    IF s.order = <<>> THEN s.buf
    ELSE ReduceDispatch(
             [order |-> Tail(s.order),
              buf |-> ReduceWorkgroup(s.buf, n, Head(s.order), bi2, stale, oob)],
             n, bi2, stale, oob)

Ascending(wg) == [i \in 1 .. wg |-> i - 1]
Descending(wg) == [i \in 1 .. wg |-> wg - i]
Orders(wg) == {Ascending(wg), Descending(wg)}

\* "if (idx == 0 && n <= WORKGROUP_SIZE)": thread 0 exists and has not returned
FinalThreadRuns(wg, n) == wg >= 1 /\ CeilDiv(n, WORKGROUP_SIZE) >= 1 /\ n <= WORKGROUP_SIZE

\* "Bx[bucket_idx] = WGGx[0]" by the first global thread of the last round
Bi2Final(m, qq, wg, wgg) ==
    [m EXCEPT !.WGG = wgg,
              !.B = IF FinalThreadRuns(wg, qq.bi2N) /\ qq.bucketIdx < BufLen(m.B)
                    THEN [m.B EXCEPT ![qq.bucketIdx] = wgg[0]]
                    ELSE m.B]

PassBi2(m, qq, wg, order, stale, oob) ==
    Bi2Final(m, qq, wg,
             ReduceDispatch([order |-> order, buf |-> m.WGG], qq.bi2N, TRUE, stale, oob))

\* Pass C step 1: "while (weight > 0u)" double-and-add of one bucket
RECURSIVE WeightLoop(_)
WeightLoop(s) ==
    IF s.weight = 0 THEN s.accumulator
    ELSE LET acc == IF s.weight % 2 # 0 THEN padd(s.accumulator, s.temp)
                    ELSE s.accumulator
             wt == s.weight \div 2
         IN  WeightLoop([weight |-> wt, accumulator |-> acc,
                         temp |-> IF wt > 0 THEN pdbl(s.temp) ELSE s.temp])

PassCWorkgroupWeightByIndex(m, g) ==
    LET NUM_BUCKETS == BufLen(m.B)
        scaled == [t \in 0 .. (WORKGROUP_SIZE - 1) |->
                     LET idx == g * WORKGROUP_SIZE + t
                     IN  IF idx >= NUM_BUCKETS THEN IdentityPoint
                         ELSE WeightLoop([weight |-> idx,
                                          accumulator |-> IdentityPoint,
                                          temp |-> m.B[idx]])]
    IN  TreeReduce([stride |-> WORKGROUP_SIZE \div 2, arr |-> scaled], 0)

PassCWorkgroup(m, g) ==
    LET NUM_BUCKETS == BufLen(m.B)
        scaled == [t \in 0 .. (WORKGROUP_SIZE - 1) |->
                     LET idx == g * WORKGROUP_SIZE + t
                     IN  IF idx >= NUM_BUCKETS THEN IdentityPoint
                         ELSE WeightLoop([weight |-> NUM_BUCKETS - idx,
                                          accumulator |-> IdentityPoint,
                                          temp |-> m.B[idx]])]
    IN  TreeReduce([stride |-> WORKGROUP_SIZE \div 2, arr |-> scaled], 0)

PassC(m, wg) ==
    [m EXCEPT !.F =
        [g \in DOMAIN m.F |->
            IF g < wg /\ g < CeilDiv(BufLen(m.B), WORKGROUP_SIZE)
            THEN PassCWorkgroup(m, g)[0] ELSE m.F[g]]]

\* "batch_final_points[batch_idx] = F[0]" by the first global thread
PassDFinal(m, qq, wg, f) ==
    [m EXCEPT !.F = f,
              !.batchFinal =
                  IF FinalThreadRuns(wg, qq.dN) /\ qq.dBatch < BufLen(m.batchFinal)
                  THEN [m.batchFinal EXCEPT ![qq.dBatch] = f[0]]
                  ELSE m.batchFinal]

PassD(m, qq, wg, order, oob) ==
    PassDFinal(m, qq, wg,
               ReduceDispatch([order |-> order, buf |-> m.F], qq.dN, FALSE, FALSE, oob))

\* "final_point = to_affine_256(batch_final_points[0])" by the first global thread
PassEFinal(m, qq, wg, bf) ==
    [m EXCEPT !.batchFinal = bf,
              !.finalPoint =
                  IF FinalThreadRuns(wg, qq.eN)
                  THEN to_affine_256(bf[0], PALLAS_R2, PALLAS_MONT_INV32,
                                     PALLAS_P, PALLAS_P_MINUS_2)
                  ELSE m.finalPoint]

PassE(m, qq, wg, order, oob) ==
    PassEFinal(m, qq, wg,
               ReduceDispatch([order |-> order, buf |-> m.batchFinal], qq.eN,
                              FALSE, FALSE, oob))

\* ------------------------------------------------------- the host: inputs
\* Scalars are drawn from the values that exercise the window test: 0, 1 and
\* the scalar with every bit set; points are distinct points of the curve.
ScalarChoices == {0, 1, (2 ^ ScalarBits) - 1}
InputPoints == <<<<3, 2>>, <<5, 5>>, <<6, 2>>, <<3, 5>>, <<5, 2>>, <<6, 5>>>>
PointAt(i) == InputPoints[((i - 1) % Len(InputPoints)) + 1]
ScalarLists(n) ==
    {[i \in 1 .. n |-> IF i % 2 = 1 THEN a ELSE b] : a \in ScalarChoices, b \in ScalarChoices}
PointLists(n) == {[i \in 1 .. len |-> PointAt(i)] : len \in {n, n + 1}}
WidthChoices == (0 .. MaxW) \cup {MAX_WIDTH_BITS + 1}
\* device.limits.maxStorageBufferBindingSize: room for two elements and a
\* remainder, or for every pair in one batch
BufferSizeChoices == {2 * BYTES_PER_ELEMENT_256 + 1, MaxN * BYTES_PER_ELEMENT_256}

\* A first batch of more than one workgroup followed by a shorter one: two
\* workgroups' worth of pairs, with room for one pair more than a workgroup
LongBatchInputs ==
    {[scalars |-> [i \in 1 .. (2 * WORKGROUP_SIZE) |-> a],
      P |-> [i \in 1 .. (2 * WORKGROUP_SIZE) |-> PointAt(i)],
      bucketWidthBits |-> MIN_WIDTH_BITS,
      maxBufferSize |-> (WORKGROUP_SIZE + 1) * BYTES_PER_ELEMENT_256] :
        a \in ScalarChoices}

\* More batches than a workgroup has threads: room for one pair per batch and
\* one pair more than a workgroup
ManyBatchInputs ==
    {[scalars |-> [i \in 1 .. (WORKGROUP_SIZE + 1) |-> a],
      P |-> [i \in 1 .. (WORKGROUP_SIZE + 1) |-> PointAt(i)],
      bucketWidthBits |-> MIN_WIDTH_BITS,
      maxBufferSize |-> BYTES_PER_ELEMENT_256] :
        a \in ScalarChoices}

Inputs ==
    {[scalars |-> ks, P |-> ps, bucketWidthBits |-> w, maxBufferSize |-> sz] :
        ks \in UNION {ScalarLists(n) : n \in 0 .. MaxN},
        ps \in UNION {PointLists(n) : n \in 0 .. MaxN},
        w \in WidthChoices, sz \in BufferSizeChoices}
        \cup LongBatchInputs \cup ManyBatchInputs

NoResult == [status |-> "pending", x |-> 0, y |-> 0, error |-> ""]
NoLoc == [n |-> 0, BUCKET_WIDTH_BITS |-> 0, NUMBER_OF_BUCKETS |-> 0, maxChunkN |-> 0,
          numBatches |-> 0, batchIdx |-> 0, bucketIdx |-> 0, batches |-> <<>>]
NoObjs == [layouts |-> 0, modules |-> 0, pipelines |-> 0, bindGroups |-> 0,
           encoders |-> 0, buffers |-> {}, destroyed |-> {}, mapped |-> {}]
NoQueue == [k |-> <<>>, Px |-> <<>>, Py |-> <<>>, bucketIdx |-> 0, bi2N |-> 0,
            dN |-> 0, dBatch |-> 0, eN |-> 0, writes |-> 0]
NoMem == [PP |-> <<>>, WGG |-> <<>>, B |-> <<>>, F |-> <<>>, batchFinal |-> <<>>,
          finalPoint |-> Point256(ZeroLimbs, ZeroLimbs),
          stagingX |-> ZeroLimbs, stagingY |-> ZeroLimbs]
NoGpu == [submits |-> 0, next |-> 1]
NoField == [op |-> "off", args |-> <<>>, out |-> <<>>, done |-> FALSE]
NoCurve == [P |-> <<0, 0>>, k1 |-> 0, k2 |-> 0, step |-> "off",
            m1 |-> <<0, 0>>, m2 |-> <<0, 0>>, m12 |-> <<0, 0>>, sum |-> <<0, 0>>]

\* The buffers the call creates (the x, y, z buffers of one array are one name)
BufferNames == {"B", "batchFinalPoints", "finalPoint", "finalPointXStaging",
                "finalPointYStaging", "bucketWidthBits", "bi2N", "passD_N",
                "passD_batchIdx", "passE_N", "bucketIdx", "WGG", "k", "Px", "Py",
                "PP", "F"}
NUM_LAYOUTS == 11
NUM_PIPELINE_LAYOUTS == 6
NUM_MODULES == 6
NUM_PIPELINES == 6
NUM_BIND_GROUPS == 14

Init ==
    /\ inp \in Inputs
    /\ call = [num |-> 1, first |-> NoResult]
    /\ pc = "start"
    /\ loc = NoLoc
    /\ objs = NoObjs
    /\ q = NoQueue
    /\ mem = NoMem
    /\ cmds = <<>>
    /\ gpu = NoGpu
    /\ result = NoResult
    /\ cv = NoCurve
    /\ fv = NoField

\* ---------------------------------------------------- the host: validation
WidthInRangeUpperOnly(w) == ~(w > MAX_WIDTH_BITS)

WidthInRange(w) == ~(w < MIN_WIDTH_BITS \/ w > MAX_WIDTH_BITS)

Throw(msg) ==
    /\ pc' = "threw"
    /\ result' = [NoResult EXCEPT !.status = "threw", !.error = msg]
    /\ loc' = loc

Validate ==
    /\ pc = "start"
    /\ LET n == Len(inp.scalars)
       IN  IF n = 0 THEN Throw("scalars and points arrays cannot be empty")
           ELSE IF Len(inp.P) # n THEN Throw("scalars and points must have same length")
           ELSE IF ~WidthInRange(inp.bucketWidthBits)
                THEN Throw("bucketWidthBits must be 1-22")
           ELSE /\ pc' = "create"
                /\ result' = result
                /\ loc' = [loc EXCEPT !.n = n,
                                      !.BUCKET_WIDTH_BITS = inp.bucketWidthBits,
                                      !.NUMBER_OF_BUCKETS = 2 ^ inp.bucketWidthBits]
    /\ UNCHANGED <<inp, call, objs, q, mem, cmds, gpu, cv, fv>>

\* layouts, shader modules, pipelines, buffers, bind groups, command encoder
Max(a, b) == IF a > b THEN a ELSE b

\* Math.floor(maxStorageBufferBindingSize / BYTES_PER_ELEMENT_256)
MaxChunkN(maxBufferSize) == maxBufferSize \div BYTES_PER_ELEMENT_256

\* Math.ceil(N / maxChunkN)
NumBatchesFloor(n, maxChunkN) == n \div maxChunkN

NumBatches(n, maxChunkN) == CeilDiv(n, maxChunkN)

CreateResources ==
    /\ pc = "create"
    /\ LET maxChunkN == MaxChunkN(inp.maxBufferSize)
           numBatches == NumBatches(loc.n, maxChunkN)
       IN  /\ loc' = [loc EXCEPT !.maxChunkN = maxChunkN, !.numBatches = numBatches]
           /\ mem' = [PP |-> ZeroBuffer(maxChunkN, IdentityPoint),
                      WGG |-> ZeroBuffer(CeilDiv(maxChunkN, WORKGROUP_SIZE), IdentityPoint),
                      B |-> ZeroBuffer(loc.NUMBER_OF_BUCKETS, IdentityPoint),
                      F |-> ZeroBuffer(CeilDiv(loc.NUMBER_OF_BUCKETS, WORKGROUP_SIZE),
                                       IdentityPoint),
                      batchFinal |-> ZeroBuffer(Max(numBatches, 1), IdentityPoint),
                      finalPoint |-> Point256(ZeroLimbs, ZeroLimbs),
                      stagingX |-> ZeroLimbs, stagingY |-> ZeroLimbs]
           /\ q' = [NoQueue EXCEPT !.k = ZeroBuffer(maxChunkN, ZeroLimbs),
                                   !.Px = ZeroBuffer(maxChunkN, ZeroLimbs),
                                   !.Py = ZeroBuffer(maxChunkN, ZeroLimbs)]
    /\ objs' = [objs EXCEPT !.layouts = @ + NUM_LAYOUTS + NUM_PIPELINE_LAYOUTS,
                            !.modules = @ + NUM_MODULES,
                            !.pipelines = @ + NUM_PIPELINES,
                            !.bindGroups = @ + NUM_BIND_GROUPS,
                            !.encoders = @ + 1,
                            !.buffers = @ \cup {<<call.num, b>> : b \in BufferNames}]
    /\ pc' = IF 0 < NumBatches(loc.n, MaxChunkN(inp.maxBufferSize))
             THEN "batch" ELSE "passE"
    /\ UNCHANGED <<inp, call, cmds, gpu, result, cv, fv>>

DispatchOneWorkgroupMore(pass, wg, n) ==
    [pass |-> pass, wg |-> wg + 1, batch |-> loc.batchIdx, bucket |-> loc.bucketIdx,
     n |-> n]

Dispatch(pass, wg, n) ==
    [pass |-> pass, wg |-> wg, batch |-> loc.batchIdx, bucket |-> loc.bucketIdx, n |-> n]

\* ------------------------------------------------ the host: pass encoding
\* queue.writeBuffer of the first count elements of src into a buffer
WriteElems(buf, arr) ==
    [i \in DOMAIN buf |-> IF i < Len(arr) THEN arr[i + 1] ELSE buf[i]]

\* kArr, PxArr, PyArr: the limbs of the currentBatchN pairs from batchOffset on
kArr(batchOffset, currentBatchN) ==
    [i \in 1 .. currentBatchN |-> bigint256ToLimbs(inp.scalars[batchOffset + i])]
PxArr(batchOffset, currentBatchN) ==
    [i \in 1 .. currentBatchN |-> bigint256ToLimbs(inp.P[batchOffset + i][1])]
PyArr(batchOffset, currentBatchN) ==
    [i \in 1 .. currentBatchN |-> bigint256ToLimbs(inp.P[batchOffset + i][2])]

BeginBatchPassAFirst ==
    /\ pc = "batch"
    /\ LET batchOffset == loc.batchIdx * loc.maxChunkN
           currentBatchN == Min(loc.n - batchOffset, loc.maxChunkN)
       IN  /\ q' = [q EXCEPT
                      !.k = WriteElems(@, kArr(batchOffset, currentBatchN)),
                      !.Px = WriteElems(@, PxArr(batchOffset, currentBatchN)),
                      !.Py = WriteElems(@, PyArr(batchOffset, currentBatchN)),
                      !.writes = @ + 3]
           /\ loc' = [loc EXCEPT !.bucketIdx = 0,
                                 !.batches = Append(@, [offset |-> batchOffset,
                                                        size |-> currentBatchN])]
           /\ cmds' = <<[Dispatch("A", CeilDiv(currentBatchN, WORKGROUP_SIZE), 0)
                           EXCEPT !.bucket = 0]>> \o cmds
    /\ pc' = "bucket"
    /\ UNCHANGED <<inp, call, objs, mem, gpu, result, cv, fv>>

\* start of one iteration of the batch loop: upload, Pass A
BeginBatch ==
    /\ pc = "batch"
    /\ LET batchOffset == loc.batchIdx * loc.maxChunkN
           currentBatchN == Min(loc.n - batchOffset, loc.maxChunkN)
       IN  /\ q' = [q EXCEPT
                      !.k = WriteElems(@, kArr(batchOffset, currentBatchN)),
                      !.Px = WriteElems(@, PxArr(batchOffset, currentBatchN)),
                      !.Py = WriteElems(@, PyArr(batchOffset, currentBatchN)),
                      !.writes = @ + 3]
           /\ loc' = [loc EXCEPT !.bucketIdx = 0,
                                 !.batches = Append(@, [offset |-> batchOffset,
                                                        size |-> currentBatchN])]
           /\ cmds' = Append(cmds, [Dispatch("A", CeilDiv(currentBatchN, WORKGROUP_SIZE), 0)
                                       EXCEPT !.bucket = 0])
    /\ pc' = "bucket"
    /\ UNCHANGED <<inp, call, objs, mem, gpu, result, cv, fv>>

\* "while (currentN > 1)" of Bi2 and of Pass D: each round writes the uniform
\* (for D the batch index too) and encodes one dispatch
RECURSIVE ReduceLoop(_, _)
ReduceLoop(s, pass) ==
    IF ~(s.n > 1) THEN s
    ELSE ReduceLoop(
             [n |-> CeilDiv(s.n, WORKGROUP_SIZE),
              cmds |-> Append(s.cmds, Dispatch(pass, CeilDiv(s.n, WORKGROUP_SIZE), s.n)),
              q |-> IF pass = "Bi2"
                    THEN [s.q EXCEPT !.bi2N = s.n, !.writes = @ + 1]
                    ELSE [s.q EXCEPT !.dN = s.n, !.dBatch = loc.batchIdx,
                                     !.writes = @ + 2]], pass)

CurrentBatchN == loc.batches[Len(loc.batches)].size

\* one iteration of the bucket loop: bucket index uniform, Bi1, the Bi2 loop
EncodeBucket ==
    /\ pc = "bucket"
    /\ LET numWorkgroupsBi1 == CeilDiv(CurrentBatchN, WORKGROUP_SIZE)
           s == ReduceLoop(
                    [n |-> numWorkgroupsBi1,
                     cmds |-> Append(cmds, Dispatch("Bi1", numWorkgroupsBi1, 0)),
                     q |-> [q EXCEPT !.bucketIdx = loc.bucketIdx, !.writes = @ + 1]],
                    "Bi2")
       IN  /\ cmds' = s.cmds
           /\ q' = s.q
    /\ loc' = [loc EXCEPT !.bucketIdx = @ + 1]
    /\ pc' = IF loc.bucketIdx + 1 < loc.NUMBER_OF_BUCKETS THEN "bucket" ELSE "passC"
    /\ UNCHANGED <<inp, call, objs, mem, gpu, result, cv, fv>>

\* end of one iteration of the batch loop: Pass C, the Pass D loop
EncodePassCD ==
    /\ pc = "passC"
    /\ LET numWorkgroupsC == CeilDiv(loc.NUMBER_OF_BUCKETS, WORKGROUP_SIZE)
           s == ReduceLoop(
                    [n |-> numWorkgroupsC,
                     cmds |-> Append(cmds, [Dispatch("C", numWorkgroupsC, 0)
                                               EXCEPT !.bucket = 0]),
                     q |-> q], "D")
       IN  /\ cmds' = s.cmds
           /\ q' = s.q
    /\ loc' = [loc EXCEPT !.batchIdx = @ + 1]
    /\ pc' = IF loc.batchIdx + 1 < loc.numBatches THEN "batch" ELSE "passE"
    /\ UNCHANGED <<inp, call, objs, mem, gpu, result, cv, fv>>

\* "while (currentN_E >= 1) { ...; if (currentN_E <= 1) break; }"
RECURSIVE PassELoop(_)
PassELoop(s) ==
    IF ~(s.n >= 1) THEN s
    ELSE LET t == [n |-> CeilDiv(s.n, WORKGROUP_SIZE),
                   cmds |-> Append(s.cmds, [pass |-> "E",
                                            wg |-> CeilDiv(s.n, WORKGROUP_SIZE),
                                            batch |-> 0, bucket |-> 0, n |-> s.n]),
                   q |-> [s.q EXCEPT !.eN = s.n, !.writes = @ + 1]]
         IN  IF (t.n = 1 /\ loc.numBatches = 1) \/ t.n <= 1 THEN t ELSE PassELoop(t)

EncodePassE ==
    /\ pc = "passE"
    /\ LET s == PassELoop([n |-> loc.numBatches, cmds |-> cmds, q |-> q])
       IN  /\ cmds' = s.cmds
           /\ q' = s.q
    /\ pc' = "copies"
    /\ UNCHANGED <<inp, call, loc, objs, mem, gpu, result, cv, fv>>

CopyCommand(which) == [pass |-> which, wg |-> 0, batch |-> 0, bucket |-> 0, n |-> 0]

EncodeCopies ==
    /\ pc = "copies"
    /\ cmds' = cmds \o <<CopyCommand("copyX"), CopyCommand("copyY")>>
    /\ pc' = "submit"
    /\ UNCHANGED <<inp, call, loc, objs, q, mem, gpu, result, cv, fv>>

SubmitBeforeCopies ==
    /\ pc = "copies"
    /\ gpu' = [gpu EXCEPT !.submits = @ + 1]
    /\ pc' = "awaitX"
    /\ UNCHANGED <<inp, call, loc, objs, q, mem, cmds, result, cv, fv>>

\* queue.submit, then the call of mapAsync on the x staging buffer
Submit ==
    /\ pc = "submit"
    /\ gpu' = [gpu EXCEPT !.submits = @ + 1]
    /\ pc' = "awaitX"
    /\ UNCHANGED <<inp, call, loc, objs, q, mem, cmds, result, cv, fv>>

\* ------------------------------------------------------------- the device
\* The submitted commands run in order, one dispatch at a time; every uniform
\* and input buffer holds what the queue writes left in it before the submit.
Running(pass) ==
    /\ gpu.submits >= 1
    /\ gpu.next <= Len(cmds)
    /\ cmds[gpu.next].pass = pass

Advance ==
    /\ gpu' = [gpu EXCEPT !.next = @ + 1]
    /\ UNCHANGED <<inp, call, pc, loc, objs, q, cmds, result, cv, fv>>

ExecPassA ==
    /\ Running("A")
    /\ mem' = PassA(mem, q, cmds[gpu.next].wg, loc.maxChunkN)
    /\ Advance

ExecPassBi1 ==
    /\ Running("Bi1")
    /\ \E oob \in OobModes :
          mem' = PassBi1(mem, q, cmds[gpu.next].wg, loc.maxChunkN,
                         loc.BUCKET_WIDTH_BITS, oob)
    /\ Advance

ExecPassBi2 ==
    /\ Running("Bi2")
    /\ \E order \in Orders(cmds[gpu.next].wg), stale \in BOOLEAN, oob \in OobModes :
          mem' = PassBi2(mem, q, cmds[gpu.next].wg, order, stale, oob)
    /\ Advance

ExecPassC ==
    /\ Running("C")
    /\ mem' = PassC(mem, cmds[gpu.next].wg)
    /\ Advance

ExecPassD ==
    /\ Running("D")
    /\ \E order \in Orders(cmds[gpu.next].wg), oob \in OobModes :
          mem' = PassD(mem, q, cmds[gpu.next].wg, order, oob)
    /\ Advance

ExecPassE ==
    /\ Running("E")
    /\ \E order \in Orders(cmds[gpu.next].wg), oob \in OobModes :
          mem' = PassE(mem, q, cmds[gpu.next].wg, order, oob)
    /\ Advance

ExecCopy ==
    /\ \/ /\ Running("copyX")
          /\ mem' = [mem EXCEPT !.stagingX = mem.finalPoint.x]
       \/ /\ Running("copyY")
          /\ mem' = [mem EXCEPT !.stagingY = mem.finalPoint.y]
    /\ Advance

\* ------------------------------------------------------ the host: readback
GpuDone == gpu.submits >= 1 /\ gpu.next > Len(cmds)
StagingX == <<call.num, "finalPointXStaging">>
StagingY == <<call.num, "finalPointYStaging">>

\* the map of the x staging buffer completes; mapAsync is called on y
MapXResolved ==
    /\ pc = "awaitX"
    /\ GpuDone
    /\ objs' = [objs EXCEPT !.mapped = @ \cup {StagingX}]
    /\ pc' = "awaitY"
    /\ UNCHANGED <<inp, call, loc, q, mem, cmds, gpu, result, cv, fv>>

\* a map promise rejects (device lost): the exception leaves the function
MapRejected ==
    /\ pc \in {"awaitX", "awaitY"}
    /\ pc' = "rejected"
    /\ result' = [NoResult EXCEPT !.status = "rejected", !.error = "mapAsync"]
    /\ UNCHANGED <<inp, call, loc, objs, q, mem, cmds, gpu, cv, fv>>

\* the map of y completes: read both ranges, unmap both, return
MapYResolved ==
    /\ pc = "awaitY"
    /\ GpuDone
    /\ result' = [NoResult EXCEPT !.status = "returned",
                                  !.x = limbs256ToBigint(mem.stagingX),
                                  !.y = limbs256ToBigint(mem.stagingY)]
    /\ objs' = [objs EXCEPT !.mapped = (@ \cup {StagingY}) \ {StagingX, StagingY}]
    /\ pc' = "returned"
    /\ UNCHANGED <<inp, call, loc, q, mem, cmds, gpu, cv, fv>>

\* A second call with the same pairs in another order.  Nothing of the first
\* call is handed to it; the buffers the first call left on the device stay.
Rotate(seq) == Tail(seq) \o <<Head(seq)>>
NextCall ==
    /\ pc = "returned"
    /\ call.num = 1
    /\ Len(inp.scalars) >= 2
    /\ inp' = [inp EXCEPT !.scalars = Rotate(@), !.P = Rotate(@)]
    /\ call' = [num |-> 2, first |-> result]
    /\ pc' = "start"
    /\ loc' = NoLoc
    /\ q' = NoQueue
    /\ mem' = NoMem
    /\ cmds' = <<>>
    /\ gpu' = NoGpu
    /\ result' = NoResult
    /\ UNCHANGED <<objs, cv, fv>>

Next ==
    \/ Validate
    \/ CreateResources
    \/ BeginBatch
    \/ EncodeBucket
    \/ EncodePassCD
    \/ EncodePassE
    \/ EncodeCopies
    \/ Submit
    \/ ExecPassA
    \/ ExecPassBi1
    \/ ExecPassBi2
    \/ ExecPassC
    \/ ExecPassD
    \/ ExecPassE
    \/ ExecCopy
    \/ MapXResolved
    \/ MapRejected
    \/ MapYResolved
    \/ NextCall

Spec == Init /\ [][Next]_vars

\* ------------------------------------------- the curve operations on their own
\* scalar_mul and point_add applied to a point P and scalars k1, k2.
CurveInit ==
    /\ inp = [scalars |-> <<>>, P |-> <<>>, bucketWidthBits |-> 0, maxBufferSize |-> 0]
    /\ call = [num |-> 1, first |-> NoResult]
    /\ pc = "off"
    /\ loc = NoLoc
    /\ objs = NoObjs
    /\ q = NoQueue
    /\ mem = NoMem
    /\ cmds = <<>>
    /\ gpu = NoGpu
    /\ result = NoResult
    /\ fv = NoField
    /\ cv \in {[NoCurve EXCEPT !.P = pt, !.k1 = a, !.k2 = b, !.step = "in"] :
                  pt \in CurvePoints, a \in 0 .. MaxK, b \in 0 .. MaxK}

ScalarMulAffine(k, pt) ==
    AffineOf(curve_scalar_mul(bigint256ToLimbs(k), bigint256ToLimbs(pt[1]),
                              bigint256ToLimbs(pt[2])))

\* point_add on two affine points: to projective, add, back to affine
PointAddAffine(A, C) ==
    AffineOf(to_affine_256(
        padd(to_projective_256(bigint256ToLimbs(A[1]), bigint256ToLimbs(A[2]),
                               PALLAS_R2, PALLAS_MONT_INV32, PALLAS_P),
             to_projective_256(bigint256ToLimbs(C[1]), bigint256ToLimbs(C[2]),
                               PALLAS_R2, PALLAS_MONT_INV32, PALLAS_P)),
        PALLAS_R2, PALLAS_MONT_INV32, PALLAS_P, PALLAS_P_MINUS_2))

CurveMul ==
    /\ cv.step = "in"
    /\ cv' = [cv EXCEPT !.step = "mul",
                        !.m1 = ScalarMulAffine(cv.k1, cv.P),
                        !.m2 = ScalarMulAffine(cv.k2, cv.P),
                        !.m12 = ScalarMulAffine(cv.k1 + cv.k2, cv.P)]
    /\ UNCHANGED <<inp, call, pc, loc, objs, q, mem, cmds, gpu, result, fv>>

CurveAdd ==
    /\ cv.step = "mul"
    /\ cv' = [cv EXCEPT !.step = "add", !.sum = PointAddAffine(cv.m1, cv.m2)]
    /\ UNCHANGED <<inp, call, pc, loc, objs, q, mem, cmds, gpu, result, fv>>

CurveNext == CurveMul \/ CurveAdd

SpecCurve == CurveInit /\ [][CurveNext]_vars

\* ------------------------------------------ the field operations on their own
\* Every arithmetic function of helpers.ts takes its modulus as a parameter.
\* F_7 fits in one limb, so under it no carry or borrow ever crosses a limb.
\* The functions are therefore also applied under a modulus that fills all
\* the limbs the way the Pallas prime fills its eight: the top limb is
\* 2^(LimbBits-2), p = 1 modulo 2^LimbBits (so -p^-1 is 2^LimbBits - 1, as
\* PALLAS_MONT_INV32 is 0xffffffff) and no limb of p is all ones.
IsPrime(n) ==
    n > 1 /\ \A d \in 2 .. (2 ^ ((ScalarBits + 1) \div 2)) : d * d > n \/ n % d # 0

RECURSIVE NextPrime(_)
NextPrime(n) == IF IsPrime(n) THEN n ELSE NextPrime(n + LIMB)

FIELD_P_INT == NextPrime((LIMB \div 4) * LIMB ^ (NumLimbs - 1) + 1)

\* a * b mod m without leaving the integer range
RECURSIVE MulMod(_, _, _)
MulMod(a, b, m) ==
    IF b = 0 THEN 0
    ELSE (((2 * MulMod(a, b \div 2, m)) % m) + ((b % 2) * a)) % m

FIELD_R_INT == MontR % FIELD_P_INT
FIELD_P == bigint256ToLimbs(FIELD_P_INT)
FIELD_R2 == bigint256ToLimbs(MulMod(FIELD_R_INT, FIELD_R_INT, FIELD_P_INT))
FIELD_MONT_INV32 ==
    CHOOSE m \in 0 .. (LIMB - 1) : (m * (FIELD_P_INT % LIMB) + 1) % LIMB = 0
FIELD_P_MINUS_2 == bigint256ToLimbs(FIELD_P_INT - 2)

\* Inputs: every element whose limbs are 0, 1 or all ones, which makes every
\* carry and borrow pattern between limbs occur, and the two largest field
\* elements.
LimbChoices == {0, 1, LIMB - 1}

RECURSIVE WordsOf(_)
WordsOf(n) ==
    IF n = 0 THEN {0}
    ELSE {l + LIMB * w : l \in LimbChoices, w \in WordsOf(n - 1)}

Words == WordsOf(NumLimbs)
FieldValues == {w \in Words : w < FIELD_P_INT} \cup {FIELD_P_INT - 1, FIELD_P_INT - 2}

\* u32 operands of mul_add_carry: the ends of the range and the values around
\* the boundary between the two halves
MacValues == {0, 1, HALF - 1, HALF, LIMB - 2, LIMB - 1}

FieldCall(op, args) == [NoField EXCEPT !.op = op, !.args = args]

MacInputs ==
    {FieldCall("mul_add_carry", <<a, b, acc, carry>>) :
        a \in MacValues, b \in MacValues, acc \in MacValues, carry \in MacValues}
MacCopiesInputs ==
    {FieldCall("mul_add_carry_copies", <<a, b, acc, carry>>) :
        a \in MacValues, b \in MacValues, acc \in MacValues, carry \in MacValues}
MarshalInputs == {FieldCall("marshal", <<v>>) : v \in Words \cup (0 .. 2 * LIMB)}

SubNoBorrowInputs == {FieldCall("sub_no_borrow", <<x, y>>) : x \in Words, y \in Words}
SubModInputs == {FieldCall("sub_mod", <<a, b>>) : a \in FieldValues, b \in FieldValues}
AddModInputs == {FieldCall("add_mod", <<a, b>>) : a \in FieldValues, b \in FieldValues}

\* a 2*NumLimbs-limb T is the pair <<upper half, lower half>>
ReduceInputs ==
    {FieldCall("montgomery_reduce", <<hi, lo>>) :
        hi \in Words \cup {FIELD_P_INT - 1, FIELD_P_INT}, lo \in Words}
MulInputs == {FieldCall("mul", <<a, b>>) : a \in FieldValues, b \in FieldValues}

\* curve.wgsl holds the curve definition twice.  The second one carries
\* R^2 mod p (FIELD_R2).  The PALLAS_R2 of the first one is a field element
\* other than R^2 mod p; which one its scaled counterpart would be is not
\* determined, so it is any such element.
FIELD_R2_FIRST == FieldValues \ {limbs256ToBigint(FIELD_R2)}

ToMontgomeryInputs ==
    {FieldCall("to_montgomery", <<a, limbs256ToBigint(FIELD_R2)>>) : a \in FieldValues}
        \cup {FieldCall("to_montgomery", <<1, r2>>) : r2 \in FIELD_R2_FIRST}
ModInverseInputs == {FieldCall("mod_inverse", <<a>>) : a \in FieldValues}

\* Jacobian coordinates <<X, Y, Z>> over the curve's field: every curve
\* point under the scalings Z = 1 and Z = 2, and two representations of the
\* identity (the zeroed accumulator and one with X, Y nonzero, as point_add
\* produces)
ZChoices == {1, 2}
ProjChoices ==
    {<<(z * z * A[1]) % PALLAS_P_INT, (z * z * z * A[2]) % PALLAS_P_INT, z>> :
        A \in CurvePoints, z \in ZChoices}
        \cup {<<0, 0, 0>>, <<1, 1, 0>>}
PointAddInputs ==
    {FieldCall("point_add", <<P, Q>>) : P \in ProjChoices, Q \in ProjChoices}
PointDoubleInputs == {FieldCall("point_double", <<P>>) : P \in ProjChoices}

\* to_projective_256 of the affine form of a projective point P, and the sum of
\* the result with a bucket entry Q
ToProjectiveInputs ==
    {FieldCall("to_projective", <<P, Q>>) :
        P \in ProjChoices, Q \in {<<0, 0, 0>>, <<3, 2, 1>>}}

\* One workgroup of a Bi2 dispatch over a WGG buffer of two workgroups' worth
\* of entries (P at the even indices, Q at the odd ones), with uniform n; the
\* entries are the identity and two points under the scalings Z = 1 and Z = 2
BufferPoints == {P \in ProjChoices : P[1] \in {0, 3} /\ P[2] \in {0, 2}}
Bi2Inputs ==
    {FieldCall("bi2_workgroup", <<P, Q, n, g, stale>>) :
        P \in BufferPoints, Q \in BufferPoints, n \in 1 .. (2 * WORKGROUP_SIZE),
        g \in 0 .. 1, stale \in BOOLEAN}

\* A dispatch of more than one workgroup of a reducing pass (Bi2, or the
\* shape Pass D and Pass E share) over a buffer of two workgroups' worth of
\* entries
DispatchInputs ==
    {FieldCall("reduce_dispatch", <<P, Q, n, bi2>>) :
        P \in BufferPoints, Q \in BufferPoints,
        n \in (WORKGROUP_SIZE + 1) .. (2 * WORKGROUP_SIZE), bi2 \in BOOLEAN}

\* The threads of one workgroup of a reducing pass, instruction by
\* instruction.  A thread's program is the sequence of its accesses to the
\* shared array WGL in source order: the early return, the store of its own
\* slot, the reduction rounds (read of slot index + reach, write of slot
\* index, by the threads with index < reach) and the barriers between them.
Instr(kind, reach) == [kind |-> kind, reach |-> reach]

\* "while (stride > 0u) { if (idx < stride) {...} workgroupBarrier();
\* stride = stride / 2u; }", and Bi2's "while (stride >= 1u) { let half =
\* stride >> 1u; if (local_idx < half) {...} workgroupBarrier(); stride = half; }"
RECURSIVE Rounds(_, _)
Rounds(stride, bi2) ==
    IF stride < 1 THEN <<>>
    ELSE <<Instr("round", IF bi2 THEN stride \div 2 ELSE stride), Instr("barrier", 0)>>
             \o Rounds(stride \div 2, bi2)

ThreadProgram(pass) ==
    IF pass = "Bi2"
    THEN <<Instr("exit", 0), Instr("store", 0)>> \o Rounds(WORKGROUP_SIZE \div 2, TRUE)
    ELSE <<Instr("exit", 0), Instr("store", 0), Instr("barrier", 0)>>
             \o Rounds(WORKGROUP_SIZE \div 2, FALSE)

\* Bi1 indexes WGL and guards its rounds by the global idx, the other passes
\* by local_idx
SlotIndex(pass, g, t) == IF pass = "Bi1" THEN g * WORKGROUP_SIZE + t ELSE t

\* Bi1: "if (idx >= arrayLength(&k)) return;"; the others:
\* "if (workgroup_idx >= workgroups_needed) return;"
ThreadExits(pass, g, len, t) ==
    IF pass = "Bi1" THEN g * WORKGROUP_SIZE + t >= len
    ELSE g >= CeilDiv(len, WORKGROUP_SIZE)

ThreadsInit ==
    [pc |-> [t \in 0 .. (WORKGROUP_SIZE - 1) |-> 1], written |-> {}, read |-> {},
     race |-> FALSE, partial |-> FALSE]

\* workgroup g of a dispatch of the pass, over an array (k, WGG, B, F or
\* batch_final_points) of len elements
WorkgroupInputs ==
    {[FieldCall("workgroup", <<pass, g, len>>) EXCEPT !.out = ThreadsInit] :
        pass \in {"Bi1", "Bi2", "C", "D", "E"}, g \in 0 .. 1,
        len \in {WORKGROUP_SIZE, WORKGROUP_SIZE + 1}}

\* Pass C over a bucket buffer of nb entries (P at the even indices, Q at the
\* odd ones): two full workgroups, or one full workgroup and one with
\* threads past the end
PassCInputs ==
    {FieldCall("pass_c", <<P, Q, nb>>) :
        P \in BufferPoints, Q \in BufferPoints,
        nb \in {WORKGROUP_SIZE + 1, 2 * WORKGROUP_SIZE}}

\* A page of browser tests: what the body of each registered test does.  The
\* page starts with testsFinished and testsFailures undefined.
MaxTests == 3
TestBodies == {"passes", "throws", "times out", "skipped"}
PageInit ==
    [next |-> 1, testsFinished |-> "undefined", testsFailures |-> "undefined",
     exit |-> "running"]
RunTestsInputs ==
    {[FieldCall("run_tests", <<tests>>) EXCEPT !.out = PageInit] :
        tests \in UNION {[1 .. len -> TestBodies] : len \in 1 .. MaxTests}}

\* the windows of every width that lie inside the scalar
WindowInputs ==
    {FieldCall("window", <<k, t[1], t[2]>>) :
        k \in Words,
        t \in {t \in (0 .. (ScalarBits - 1)) \X (MIN_WIDTH_BITS .. MaxW) :
                  t[1] * t[2] + t[2] <= ScalarBits}}

OpsInputs ==
    PointAddInputs \cup PointDoubleInputs \cup ToProjectiveInputs \cup Bi2Inputs \cup RunTestsInputs \cup DispatchInputs
        \cup WorkgroupInputs \cup PassCInputs \cup WindowInputs \cup
    MacInputs \cup MacCopiesInputs \cup MarshalInputs \cup SubNoBorrowInputs \cup SubModInputs
        \cup AddModInputs \cup ReduceInputs \cup MulInputs
        \cup ToMontgomeryInputs \cup ModInverseInputs

OpsInit ==
    /\ inp = [scalars |-> <<>>, P |-> <<>>, bucketWidthBits |-> 0, maxBufferSize |-> 0]
    /\ call = [num |-> 1, first |-> NoResult]
    /\ pc = "off"
    /\ loc = NoLoc
    /\ objs = NoObjs
    /\ q = NoQueue
    /\ mem = NoMem
    /\ cmds = <<>>
    /\ gpu = NoGpu
    /\ result = NoResult
    /\ cv = NoCurve
    /\ fv \in OpsInputs

\* one call of the operation fv.op on fv.args, its result kept in fv.out
Apply(op, out) ==
    /\ fv.op = op
    /\ ~fv.done
    /\ fv' = [fv EXCEPT !.out = out, !.done = TRUE]
    /\ UNCHANGED <<inp, call, pc, loc, objs, q, mem, cmds, gpu, result, cv>>

\* mul_add_carry.spec.ts: res = mul_add_carry(a, b, acc, &carry)
OpMulAddCarry ==
    Apply("mul_add_carry",
          mul_add_carry(fv.args[1], fv.args[2], fv.args[3], fv.args[4]))

\* the three copies of the multiply-accumulate on the same operands
OpMulAddCarryCopies ==
    Apply("mul_add_carry_copies",
          [helpers |-> mul_add_carry(fv.args[1], fv.args[2], fv.args[3], fv.args[4]),
           arithmetic |-> mul_add_carry256(fv.args[1], fv.args[2], fv.args[3],
                                           fv.args[4]),
           bundled |-> mul_add_carry_bundled(fv.args[1], fv.args[2], fv.args[3],
                                             fv.args[4])])

\* limbs256ToBigint(bigint256ToLimbs(v)), as every host round trip does
OpMarshal ==
    Apply("marshal",
          [limbs |-> bigint256ToLimbs(fv.args[1]),
           back |-> limbs256ToBigint(bigint256ToLimbs(fv.args[1]))])

OpSubNoBorrow ==
    Apply("sub_no_borrow",
          sub_no_borrow_256(bigint256ToLimbs(fv.args[1]), bigint256ToLimbs(fv.args[2])))

OpSubMod ==
    Apply("sub_mod",
          sub_mod_256(bigint256ToLimbs(fv.args[1]), bigint256ToLimbs(fv.args[2]),
                      FIELD_P))

OpAddMod ==
    Apply("add_mod",
          add_mod_256(bigint256ToLimbs(fv.args[1]), bigint256ToLimbs(fv.args[2]),
                      FIELD_P))

WideLimbs(hi, lo) ==
    [i \in WideIdx |-> IF i < NumLimbs THEN bigint256ToLimbs(lo)[i]
                       ELSE bigint256ToLimbs(hi)[i - NumLimbs]]

OpReduce ==
    Apply("montgomery_reduce",
          montgomery_reduce_256(WideLimbs(fv.args[1], fv.args[2]),
                                FIELD_MONT_INV32, FIELD_P))

\* the mul shader: to Montgomery form, multiply, back
MulShader(a, b) ==
    from_montgomery_256(
        mont_mul_256(to_montgomery_256(a, FIELD_R2, FIELD_MONT_INV32, FIELD_P),
                     to_montgomery_256(b, FIELD_R2, FIELD_MONT_INV32, FIELD_P),
                     FIELD_MONT_INV32, FIELD_P),
        FIELD_MONT_INV32, FIELD_P)

OpMul ==
    Apply("mul", MulShader(bigint256ToLimbs(fv.args[1]), bigint256ToLimbs(fv.args[2])))

\* the toMontgomery shader, and the way back
MontRoundTrip(mont) ==
    [mont |-> mont, back |-> from_montgomery_256(mont, FIELD_MONT_INV32, FIELD_P)]

OpToMontgomery ==
    Apply("to_montgomery",
          MontRoundTrip(to_montgomery_256(bigint256ToLimbs(fv.args[1]),
                                          bigint256ToLimbs(fv.args[2]),
                                          FIELD_MONT_INV32, FIELD_P)))

InverseProduct(am, inv) ==
    [inv |-> inv,
     prod |-> mont_mul_256(am, inv, FIELD_MONT_INV32, FIELD_P),
     one |-> to_montgomery_256(OneLimbs, FIELD_R2, FIELD_MONT_INV32, FIELD_P)]

InverseOf(am) ==
    InverseProduct(am, mod_inverse_mont_256(am, FIELD_R2, FIELD_MONT_INV32, FIELD_P,
                                            FIELD_P_MINUS_2))

OpModInverse ==
    Apply("mod_inverse",
          InverseOf(to_montgomery_256(bigint256ToLimbs(fv.args[1]), FIELD_R2,
                                      FIELD_MONT_INV32, FIELD_P)))

\* coordinates in Montgomery form, as to_projective_256 stores them
ProjOf(t) ==
    ProjectivePoint256(
        to_montgomery_256(bigint256ToLimbs(t[1]), PALLAS_R2, PALLAS_MONT_INV32, PALLAS_P),
        to_montgomery_256(bigint256ToLimbs(t[2]), PALLAS_R2, PALLAS_MONT_INV32, PALLAS_P),
        to_montgomery_256(bigint256ToLimbs(t[3]), PALLAS_R2, PALLAS_MONT_INV32, PALLAS_P))

OpPointAdd == Apply("point_add", padd(ProjOf(fv.args[1]), ProjOf(fv.args[2])))

OpPointDouble == Apply("point_double", pdbl(ProjOf(fv.args[1])))

\* Pass A applied to what to_affine_256 returns for P, and the accumulation of
\* the converted point into Q
AffineToProjective(A) ==
    to_projective_256(A.x, A.y, PALLAS_R2, PALLAS_MONT_INV32, PALLAS_P)

OpToProjective ==
    Apply("to_projective",
          LET A == to_affine_256(ProjOf(fv.args[1]), PALLAS_R2, PALLAS_MONT_INV32,
                                 PALLAS_P, PALLAS_P_MINUS_2)
          IN  [affine |-> A,
               proj |-> AffineToProjective(A),
               sum |-> padd(ProjOf(fv.args[2]), AffineToProjective(A))])

Bi2Buffer(P, Q) ==
    [i \in 0 .. (2 * WORKGROUP_SIZE - 1) |-> IF i % 2 = 0 THEN ProjOf(P) ELSE ProjOf(Q)]

\* the WGG buffer after workgroup g of a Bi2 dispatch ran
OpBi2Workgroup ==
    Apply("bi2_workgroup",
          ReduceDispatch([order |-> <<fv.args[4]>>,
                          buf |-> Bi2Buffer(fv.args[1], fv.args[2])],
                         fv.args[3], TRUE, fv.args[5], "zero"))

\* the buffer after every workgroup of the dispatch ran, in an order the
\* device chooses
OpReduceDispatch ==
    /\ fv.op = "reduce_dispatch"
    /\ \E order \in Orders(CeilDiv(fv.args[3], WORKGROUP_SIZE)) :
           Apply("reduce_dispatch",
                 ReduceDispatch([order |-> order,
                                 buf |-> Bi2Buffer(fv.args[1], fv.args[2])],
                                fv.args[3], fv.args[4], FALSE, "zero"))

\* Thread t executes its next instruction other than a barrier.  "written"
\* and "read" are the slots written, and read by a thread other than their
\* owner, since the last barrier; an access to a slot the other kind of
\* access touched since then is not separated from it by a barrier.
ThreadAfter(th, pass, g, len, t) ==
    LET prog == ThreadProgram(pass)
        ins == prog[th.pc[t]]
        i == SlotIndex(pass, g, t)
        acts == ins.kind = "round" /\ i < ins.reach
        wr == IF (ins.kind = "store" \/ acts) /\ i < WORKGROUP_SIZE THEN {i} ELSE {}
        rd == IF acts /\ i + ins.reach < WORKGROUP_SIZE THEN {i + ins.reach} ELSE {}
    IN  [th EXCEPT
            !.pc[t] = IF ins.kind = "exit" /\ ThreadExits(pass, g, len, t)
                      THEN Len(prog) + 1 ELSE @ + 1,
            !.written = @ \cup wr,
            !.read = @ \cup rd,
            !.race = @ \/ wr \cap th.read # {} \/ rd \cap th.written # {}]

Live(th, prog) == {t \in DOMAIN th.pc : th.pc[t] <= Len(prog)}

OpThreadStep ==
    /\ fv.op = "workgroup"
    /\ \E t \in Live(fv.out, ThreadProgram(fv.args[1])) :
           /\ ThreadProgram(fv.args[1])[fv.out.pc[t]].kind # "barrier"
           /\ fv' = [fv EXCEPT !.out = ThreadAfter(fv.out, fv.args[1], fv.args[2],
                                                   fv.args[3], t)]
    /\ UNCHANGED <<inp, call, pc, loc, objs, q, mem, cmds, gpu, result, cv>>

\* workgroupBarrier(): every thread still running waits at it; the threads
\* that returned before it never execute it
OpBarrierRelease ==
    /\ fv.op = "workgroup"
    /\ Live(fv.out, ThreadProgram(fv.args[1])) # {}
    /\ \A t \in Live(fv.out, ThreadProgram(fv.args[1])) :
           ThreadProgram(fv.args[1])[fv.out.pc[t]].kind = "barrier"
    /\ fv' = [fv EXCEPT
                 !.out = [pc |-> [t \in DOMAIN fv.out.pc |->
                                    IF t \in Live(fv.out, ThreadProgram(fv.args[1]))
                                    THEN fv.out.pc[t] + 1 ELSE fv.out.pc[t]],
                          written |-> {}, read |-> {}, race |-> fv.out.race,
                          partial |-> fv.out.partial
                              \/ Live(fv.out, ThreadProgram(fv.args[1])) # DOMAIN fv.out.pc],
                 !.done = \A t \in Live(fv.out, ThreadProgram(fv.args[1])) :
                              fv.out.pc[t] = Len(ThreadProgram(fv.args[1]))]
    /\ UNCHANGED <<inp, call, pc, loc, objs, q, mem, cmds, gpu, result, cv>>

\* runSuite, one iteration of "for (const t of runnableTests)": a skipped test
\* is passed over; the body runs under withTimeout inside try, and the catch
\* block reports the error on the console and in the page.  Neither branch
\* assigns a global of the page.
OpRunTest ==
    /\ fv.op = "run_tests"
    /\ fv.out.next <= Len(fv.args[1])
    /\ fv' = [fv EXCEPT !.out.next = @ + 1]
    /\ UNCHANGED <<inp, call, pc, loc, objs, q, mem, cmds, gpu, result, cv>>

\* runTests after runSuite returned: "globalThis.testsFinished = true"
OpTestsFinished ==
    /\ fv.op = "run_tests"
    /\ fv.out.next > Len(fv.args[1])
    /\ fv.out.testsFinished # "true"
    /\ fv' = [fv EXCEPT !.out.testsFinished = "true"]
    /\ UNCHANGED <<inp, call, pc, loc, objs, q, mem, cmds, gpu, result, cv>>

\* "window.testsFailures || 0"
OrZero(v) == IF v = "undefined" THEN 0 ELSE v

\* the command-line runner: waitForFunction(testsFinished === true), then
\* process.exit(failuresCount ? 1 : 0)
OpCliExit ==
    /\ fv.op = "run_tests"
    /\ fv.out.testsFinished = "true"
    /\ fv.out.exit = "running"
    /\ fv' = [fv EXCEPT !.out.exit = IF OrZero(fv.out.testsFailures) # 0
                                      THEN "exit 1" ELSE "exit 0",
                         !.done = TRUE]
    /\ UNCHANGED <<inp, call, pc, loc, objs, q, mem, cmds, gpu, result, cv>>

PassCBuckets(P, Q, nb) ==
    [i \in 0 .. (nb - 1) |-> IF i % 2 = 0 THEN ProjOf(P) ELSE ProjOf(Q)]

\* the F buffer after a Pass C dispatch of ceil(nb / WORKGROUP_SIZE) workgroups
OpPassC ==
    Apply("pass_c",
          PassC([NoMem EXCEPT
                    !.B = PassCBuckets(fv.args[1], fv.args[2], fv.args[3]),
                    !.F = ZeroBuffer(CeilDiv(fv.args[3], WORKGROUP_SIZE), IdentityPoint)],
                CeilDiv(fv.args[3], WORKGROUP_SIZE)).F)

\* k_ij of the Bi1 shader for the scalar k, bucket index j and width w
OpWindow ==
    Apply("window",
          WindowValue(bigint256ToLimbs(fv.args[1]), fv.args[2], fv.args[3], "zero"))

OpsNext ==
    \/ OpWindow
    \/ OpToProjective
    \/ OpRunTest
    \/ OpTestsFinished
    \/ OpCliExit
    \/ OpPassC
    \/ OpThreadStep
    \/ OpBarrierRelease
    \/ OpPointAdd
    \/ OpPointDouble
    \/ OpBi2Workgroup
    \/ OpReduceDispatch
    \/ OpMulAddCarry
    \/ OpMulAddCarryCopies
    \/ OpMarshal
    \/ OpSubNoBorrow
    \/ OpSubMod
    \/ OpAddMod
    \/ OpReduce
    \/ OpMul
    \/ OpToMontgomery
    \/ OpModInverse

SpecOps == OpsInit /\ [][OpsNext]_vars

\* ================================================================ claims
Returned == result.status = "returned"
ResultPoint == <<result.x, result.y>>
AllZero(scalars) == \A i \in DOMAIN scalars : scalars[i] = 0

\* C1: for every N >= 1, every allowed window width and every list of scalars
\* paired with on-curve points, the call returns the affine coordinates of the
\* group sum of k_i * P_i, and (0,0) when that sum is the identity.
C1_MsmIsGroupSum == Returned => ResultPoint = RefMSM(inp.scalars, inp.P)

\* C2: for a single pair with scalar 1, msm([1], [P]) returns P itself, for
\* every input point and every allowed window width.
C2_ScalarOneReturnsPoint ==
    (Returned /\ inp.scalars = <<1>>) => ResultPoint = inp.P[1]

\* C3: when every scalar is 0 the call returns the identity sentinel (0,0), for
\* any points, any N >= 1 (more pairs than one workgroup included) and any
\* allowed window width.
C3_ZeroScalarsGiveSentinel ==
    (Returned /\ AllZero(inp.scalars)) => ResultPoint = RefIdentity

C3_ZeroScalarsManyPairs ==
    /\ Returned
    /\ AllZero(inp.scalars)
    /\ Len(inp.scalars) > WORKGROUP_SIZE
    /\ loc.numBatches = 1
    /\ loc.NUMBER_OF_BUCKETS > WORKGROUP_SIZE
    /\ ResultPoint = RefIdentity

\* C4: the result does not depend on the order of the pairs: a second call on
\* the same pairs in another order returns what the first call returned.
C4_OrderInvariant ==
    (call.num = 2 /\ Returned) =>
        (result.x = call.first.x /\ result.y = call.first.y)

\* C5: with N = 0, with a number of points different from the number of
\* scalars, or with bucketWidthBits outside [1,22], the call fails with an
\* error, and no layout, shader module, pipeline, bind group, command encoder
\* or buffer is created and nothing is written or submitted to the queue.
InvalidInput ==
    \/ Len(inp.scalars) = 0
    \/ Len(inp.P) # Len(inp.scalars)
    \/ inp.bucketWidthBits \notin MIN_WIDTH_BITS .. MAX_WIDTH_BITS

C5_InvalidInputRejectedFirst ==
    InvalidInput =>
        /\ objs = NoObjs
        /\ q = NoQueue
        /\ cmds = <<>>
        /\ gpu = NoGpu
        /\ mem = NoMem
        /\ \/ pc = "start"
           \/ pc = "threw" /\ result.status = "threw" /\ result.error # ""

C5_WidthZeroRejected ==
    /\ pc = "threw"
    /\ result.status = "threw"
    /\ inp.bucketWidthBits = 0
    /\ Len(inp.scalars) = Len(inp.P)
    /\ Len(inp.scalars) > 0
    /\ objs = NoObjs

\* C6: the host splits the N pairs into nb = ceil(N / maxChunkN) batches with
\* maxChunkN = floor(maxStorageBufferBindingSize / bytes per element); batch b
\* covers exactly the indices [b * maxChunkN, b * maxChunkN + currentBatchN)
\* and uploads them, every batch holds between 1 and maxChunkN pairs, the
\* sizes sum to N and every input index belongs to exactly one batch.
RECURSIVE SumSizes(_)
SumSizes(batches) ==
    IF batches = <<>> THEN 0 ELSE Head(batches).size + SumSizes(Tail(batches))

BatchesOf(i) ==
    {b \in DOMAIN loc.batches :
        /\ loc.batches[b].offset <= i
        /\ i < loc.batches[b].offset + loc.batches[b].size}

LastBatch == loc.batches[Len(loc.batches)]

LastBatchUploaded ==
    \A i \in 0 .. (LastBatch.size - 1) :
        /\ limbs256ToBigint(q.k[i]) = inp.scalars[LastBatch.offset + i + 1]
        /\ limbs256ToBigint(q.Px[i]) = inp.P[LastBatch.offset + i + 1][1]
        /\ limbs256ToBigint(q.Py[i]) = inp.P[LastBatch.offset + i + 1][2]

C6_BatchesPartitionInput ==
    pc \notin {"start", "threw", "create", "off"} =>
        /\ loc.n = Len(inp.scalars)
        /\ loc.maxChunkN * BYTES_PER_ELEMENT_256 <= inp.maxBufferSize
        /\ inp.maxBufferSize < (loc.maxChunkN + 1) * BYTES_PER_ELEMENT_256
        /\ (loc.numBatches - 1) * loc.maxChunkN < loc.n
        /\ loc.n <= loc.numBatches * loc.maxChunkN
        /\ Len(loc.batches) <= loc.numBatches
        /\ \A b \in DOMAIN loc.batches :
              /\ loc.batches[b].offset = (b - 1) * loc.maxChunkN
              /\ loc.batches[b].size >= 1
              /\ loc.batches[b].size <= loc.maxChunkN
        /\ pc \in {"bucket", "passC"} => LastBatchUploaded
        /\ pc \notin {"batch", "bucket", "passC"} =>
              /\ Len(loc.batches) = loc.numBatches
              /\ SumSizes(loc.batches) = loc.n
              /\ \A i \in 0 .. (loc.n - 1) : Cardinality(BatchesOf(i)) = 1

C6_TwoBatchesShortLast ==
    /\ pc = "passE"
    /\ loc.numBatches = 2
    /\ Len(loc.batches) = 2
    /\ loc.batches[2].size < loc.maxChunkN
    /\ loc.batches[2].offset = loc.maxChunkN

\* C7: when a call ends, by returning its result or by failing after device
\* work has begun, every buffer the call created has been released and both
\* staging buffers are unmapped.
C7_BuffersReleasedAtExit ==
    pc \in {"returned", "rejected"} =>
        /\ {b \in objs.buffers : b[1] = call.num} \subseteq objs.destroyed
        /\ objs.mapped = {}

\* C8: one call creates exactly one command encoder and encodes all passes of
\* all batches into it, submits once, after the last pass and the two staging
\* copies are encoded, waits only after that submit, for the map of the x
\* staging buffer and then of the y staging buffer, and reads the result only
\* after both maps have completed.
CountOf(pass) == Cardinality({i \in DOMAIN cmds : cmds[i].pass = pass})

AllEncoded ==
    /\ CountOf("A") = loc.numBatches
    /\ CountOf("Bi1") = loc.numBatches * loc.NUMBER_OF_BUCKETS
    /\ CountOf("C") = loc.numBatches
    /\ CountOf("E") >= 1
    /\ CountOf("copyX") = 1
    /\ CountOf("copyY") = 1
    /\ Len(cmds) >= 2
    /\ cmds[Len(cmds) - 1].pass = "copyX"
    /\ cmds[Len(cmds)].pass = "copyY"

Submitted == pc \in {"awaitX", "awaitY", "returned", "rejected"}

C8_State ==
    /\ objs.encoders = IF pc \in {"start", "threw", "create"}
                       THEN call.num - 1 ELSE call.num
    /\ gpu.submits = IF Submitted THEN 1 ELSE 0
    /\ Submitted => AllEncoded
    /\ pc = "awaitY" => StagingX \in objs.mapped
    /\ Returned => GpuDone

C8_Step ==
    /\ (cmds' # cmds /\ cmds' # <<>>) => (gpu.submits = 0 /\ gpu'.submits = 0)
    /\ (gpu'.next # gpu.next /\ call' = call) => gpu.submits = 1
    /\ (result' # result /\ result'.status = "returned") =>
          /\ pc = "awaitY"
          /\ StagingX \in objs.mapped
          /\ GpuDone
          /\ result'.x = limbs256ToBigint(mem.stagingX)
          /\ result'.y = limbs256ToBigint(mem.stagingY)

C8_OneEncoderOneSubmit == [](C8_State) /\ [][C8_Step]_vars

C8_TwoBatchesReturned ==
    /\ Returned
    /\ loc.numBatches = 2
    /\ gpu.submits = 1
    /\ objs.encoders = 1
    /\ AllEncoded

\* C9: for every point P of the curve and every scalar k, scalar_mul(k, P) is
\* k * P under the chord-and-tangent group law, (0,0) standing for the
\* identity.
C9_ScalarMulIsGroupLaw ==
    cv.step \in {"mul", "add"} =>
        /\ cv.m1 = RefMul(cv.k1, cv.P)
        /\ cv.m2 = RefMul(cv.k2, cv.P)
        /\ cv.m12 = RefMul(cv.k1 + cv.k2, cv.P)

\* C10: for every point P of the curve and all scalars k1, k2,
\* scalar_mul(k1 + k2, P) equals point_add(scalar_mul(k1, P), scalar_mul(k2, P))
\* after conversion to affine.
C10_ScalarMulAdditive == cv.step = "add" => cv.m12 = cv.sum

\* ------------------------------------------------ the arithmetic claims
Applied(op) == fv.op = op /\ fv.done

\* U1 = X1 Z2^2, U2 = X2 Z1^2, S1 = Y1 Z2^3, S2 = Y2 Z1^3 of point_add, on
\* the integer coordinates
SameU(P, Q) ==
    (P[1] * Q[3] * Q[3]) % PALLAS_P_INT = (Q[1] * P[3] * P[3]) % PALLAS_P_INT
SameS(P, Q) ==
    (P[2] * Q[3] * Q[3] * Q[3]) % PALLAS_P_INT
        = (Q[2] * P[3] * P[3] * P[3]) % PALLAS_P_INT

\* C11: point_add(P, Q) returns Q when P is the identity (Z = 0) and P when
\* Q is the identity (an identity when both are), and a point with Z = 0
\* when U1 = U2 and S1 # S2; point_double of an identity is an identity.
C11_IdentityCases ==
    /\ Applied("point_add") =>
           /\ fv.args[1][3] = 0 => fv.out = ProjOf(fv.args[2])
           /\ (fv.args[1][3] # 0 /\ fv.args[2][3] = 0) => fv.out = ProjOf(fv.args[1])
           /\ (fv.args[1][3] = 0 /\ fv.args[2][3] = 0) => is_infinity_proj_256(fv.out)
           /\ (/\ fv.args[1][3] # 0
               /\ fv.args[2][3] # 0
               /\ SameU(fv.args[1], fv.args[2])
               /\ ~SameS(fv.args[1], fv.args[2])) => is_infinity_proj_256(fv.out)
    /\ (Applied("point_double") /\ fv.args[1][3] = 0) =>
           /\ is_infinity_proj_256(fv.out)
           /\ fv.out = ProjOf(fv.args[1])

\* (3, 2) with Z = 1 plus its inverse (3, 5) under the scaling Z = 2
C11_InversesCancel ==
    /\ Applied("point_add")
    /\ fv.args = << <<3, 2, 1>>, <<5, 5, 2>> >>
    /\ SameU(fv.args[1], fv.args[2])
    /\ ~SameS(fv.args[1], fv.args[2])
    /\ is_infinity_proj_256(fv.out)

\* C12: mul_add_carry returns the low limb of a*b + acc + carry and leaves the
\* high limb in carry, whatever intermediate sums wrap; for the largest
\* operands with acc = carry = 0 it returns 1 with carry 2^LimbBits - 2.
C12_MulAddCarryExact ==
    Applied("mul_add_carry") =>
        /\ fv.out.res =
               (fv.args[1] * fv.args[2] + fv.args[3] + fv.args[4]) % LIMB
        /\ fv.out.carry =
               (fv.args[1] * fv.args[2] + fv.args[3] + fv.args[4]) \div LIMB
        /\ (fv.args = <<LIMB - 1, LIMB - 1, 0, 0>> =>
                fv.out = [res |-> 1, carry |-> LIMB - 2])

C12_LargestOperands ==
    /\ Applied("mul_add_carry")
    /\ fv.args = <<LIMB - 1, LIMB - 1, 0, 0>>
    /\ fv.out = [res |-> 1, carry |-> LIMB - 2]

\* C20: limbs256ToBigint(bigint256ToLimbs(v)) = v for every v below
\* 2^(NumLimbs*LimbBits), and limb 0 is the least significant limb.
C20_LimbsRoundTrip ==
    Applied("marshal") =>
        /\ fv.out.back = fv.args[1]
        /\ fv.out.limbs[0] = fv.args[1] % LIMB
        /\ fv.out.limbs[NumLimbs - 1] = fv.args[1] \div (LIMB ^ (NumLimbs - 1))

C20_MixedLimbsRoundTrip ==
    /\ Applied("marshal")
    /\ fv.args[1] = MontR - LIMB
    /\ fv.out.limbs[0] = 0
    /\ fv.out.limbs[NumLimbs - 1] = LIMB - 1
    /\ fv.out.back = MontR - LIMB

\* C13: for a, b in [0, p) sub_mod_256 returns (a - b) mod p, a value of
\* [0, p); sub_no_borrow_256(x, y) is x - y for every pair with x >= y; and
\* sub_mod(0, 1, p) = p - 1.
C13_SubExact ==
    /\ Applied("sub_mod") =>
           /\ limbs256ToBigint(fv.out) =
                  (fv.args[1] - fv.args[2] + FIELD_P_INT) % FIELD_P_INT
           /\ (fv.args = <<0, 1>> => fv.out = bigint256ToLimbs(FIELD_P_INT - 1))
    /\ (Applied("sub_no_borrow") /\ fv.args[1] >= fv.args[2]) =>
           limbs256ToBigint(fv.out) = fv.args[1] - fv.args[2]

\* C14: for a, b in [0, p) add_mod_256 returns (a + b) mod p, a value of
\* [0, p) (the carries of both limb additions are propagated and p is
\* subtracted once); add_mod(p - 1, 1, p) = 0.
C14_AddModExact ==
    Applied("add_mod") =>
        /\ limbs256ToBigint(fv.out) = (fv.args[1] + fv.args[2]) % FIELD_P_INT
        /\ (fv.args = <<FIELD_P_INT - 1, 1>> => fv.out = ZeroLimbs)

\* a sum in which the carry out of limb 0 makes limb 1 wrap
C14_CarryThroughFullLimb ==
    /\ Applied("add_mod")
    /\ fv.args = <<LIMB * LIMB - 1, 1>>
    /\ fv.out = bigint256ToLimbs(LIMB * LIMB)

\* T modulo p for T = hi * R + lo, and the test "out = T * R^-1 mod p" as
\* out * R = T modulo p
WideModP(hi, lo) ==
    (MulMod(hi % FIELD_P_INT, FIELD_R_INT, FIELD_P_INT) + (lo % FIELD_P_INT))
        % FIELD_P_INT

IsReductionOf(out, hi, lo) ==
    /\ out < FIELD_P_INT
    /\ MulMod(out, FIELD_R_INT, FIELD_P_INT) = WideModP(hi, lo)

C17_MontRoundTrip ==
    (Applied("to_montgomery") /\ fv.args[2] = limbs256ToBigint(FIELD_R2)) =>
        limbs256ToBigint(fv.out.back) = fv.args[1]

C17_LargestRoundTrip ==
    /\ Applied("to_montgomery")
    /\ fv.args = <<FIELD_P_INT - 1, limbs256ToBigint(FIELD_R2)>>
    /\ fv.out.mont = bigint256ToLimbs(FIELD_P_INT - FIELD_R_INT)
    /\ fv.out.back = bigint256ToLimbs(FIELD_P_INT - 1)

\* C18: for every a in (0, p), mont_mul(to_mont(a), mod_inv(to_mont(a))) is
\* to_mont(1), mod_inv scanning every bit of p - 2 from the least significant
\* one; mod_inv of 0 is 0.
C18_InverseProductIsOne ==
    Applied("mod_inverse") =>
        /\ fv.args[1] # 0 =>
               /\ fv.out.prod = fv.out.one
               /\ fv.out.prod = bigint256ToLimbs(FIELD_R_INT)
        /\ fv.args[1] = 0 => fv.out.inv = ZeroLimbs

C18_InverseOfTwo ==
    /\ Applied("mod_inverse")
    /\ fv.args[1] = FIELD_P_INT - 2
    /\ fv.out.prod = bigint256ToLimbs(FIELD_R_INT)
    /\ fv.out.inv # fv.out.one

\* C19: the Montgomery form of 1 computed by the shader, mont_mul(1, R2), is
\* R mod p for the R^2 constant of the curve definition.
C19_MontOfOneIsR ==
    (Applied("to_montgomery") /\ fv.args[1] = 1) =>
        fv.out.mont = bigint256ToLimbs(FIELD_R_INT)

\* --------------------------------------------- the claims about the passes
\* the command the device executes next, and the one it executed last
Executing == gpu.submits >= 1 /\ gpu.next <= Len(cmds)
JustRan(pass) ==
    /\ gpu.submits >= 1
    /\ gpu.next >= 2
    /\ gpu.next - 1 <= Len(cmds)
    /\ cmds[gpu.next - 1].pass = pass

\* the k, Px, Py buffers hold the pairs of batch b (counted from 0)
BatchUploaded(b) ==
    \A i \in 0 .. (loc.batches[b + 1].size - 1) :
        /\ limbs256ToBigint(q.k[i]) = inp.scalars[loc.batches[b + 1].offset + i + 1]
        /\ limbs256ToBigint(q.Px[i]) = inp.P[loc.batches[b + 1].offset + i + 1][1]
        /\ limbs256ToBigint(q.Py[i]) = inp.P[loc.batches[b + 1].offset + i + 1][2]

\* what the host wrote right before it encoded dispatch c is what the queue
\* buffers hold
SeesItsWrites(c) ==
    /\ c.pass \in {"Bi1", "Bi2"} => q.bucketIdx = c.bucket
    /\ c.pass = "Bi2" => q.bi2N = c.n
    /\ c.pass = "D" => (q.dN = c.n /\ q.dBatch = c.batch)
    /\ c.pass = "E" => q.eN = c.n
    /\ c.pass \in {"A", "Bi1"} => BatchUploaded(c.batch)

\* C21: every dispatch, when it executes, observes what the host wrote with
\* queue.writeBuffer right before encoding it: bucket_idx = j for the Bi1 and
\* Bi2 dispatches of bucket j, its own n for each Bi2 / D / E dispatch, its
\* own batch_idx for each D dispatch, and the pairs of batch b for the passes
\* of batch b.
C21_DispatchSeesItsWrites == Executing => SeesItsWrites(cmds[gpu.next])

\* the dispatches of a reducing pass encoded for one batch and bucket that
\* perform the final write (n <= WORKGROUP_SIZE)
FinalDispatches(pass, b, j) ==
    {i \in DOMAIN cmds :
        /\ cmds[i].pass = pass
        /\ cmds[i].batch = b
        /\ cmds[i].bucket = j
        /\ cmds[i].n <= WORKGROUP_SIZE}

\* C22: for every batch and every bucket index j the host issues Bi2 dispatches
\* until one with n <= WORKGROUP_SIZE has been issued, so that the final write
\* into B[j] occurs exactly once per (batch, bucket), batches of a single Bi1
\* workgroup included.
C22_Bi2FinalOncePerBucket ==
    Submitted =>
        \A b \in 0 .. (loc.numBatches - 1), j \in 0 .. (loc.NUMBER_OF_BUCKETS - 1) :
            Cardinality(FinalDispatches("Bi2", b, j)) = 1

\* the bucket loop leaves its last index in the commands of Pass D
DFinalDispatches(b) ==
    {i \in DOMAIN cmds :
        cmds[i].pass = "D" /\ cmds[i].batch = b /\ cmds[i].n <= WORKGROUP_SIZE}

\* C23: for every batch b and every window width the host dispatches Pass D
\* until a dispatch with n <= WORKGROUP_SIZE has been issued, so that
\* batch_final[b] is written exactly once per batch, widths for which Pass C
\* uses a single workgroup included.
C23_PassDFinalOncePerBatch ==
    Submitted =>
        \A b \in 0 .. (loc.numBatches - 1) : Cardinality(DFinalDispatches(b)) = 1

\* the affine point a Jacobian point (X, Y, Z) in Montgomery form stands for:
\* (X / Z^2, Y / Z^3), the identity when Z = 0
MontToInt(limbs) ==
    (limbs256ToBigint(limbs) * FieldInv(MontR % PALLAS_P_INT)) % PALLAS_P_INT
JacobianRef(X, Y, Z) ==
    <<(X * FieldInv((Z * Z) % PALLAS_P_INT)) % PALLAS_P_INT,
      (Y * FieldInv((Z * Z * Z) % PALLAS_P_INT)) % PALLAS_P_INT>>
PointRef(P) ==
    IF is_infinity_proj_256(P) THEN RefIdentity
    ELSE JacobianRef(MontToInt(P.x), MontToInt(P.y), MontToInt(P.z))

\* window j of width w of the scalar k
RefWindow(k, j, w) ==
    IF j * w >= ScalarBits THEN 0 ELSE (k \div (2 ^ (j * w))) % (2 ^ w)

\* sum of the points of the pairs offset + from .. offset + to - 1 whose
\* window j equals j
RECURSIVE RefBucketSum(_, _, _, _, _)
RefBucketSum(offset, from, to, j, w) ==
    IF from >= to THEN RefIdentity
    ELSE RefAdd(IF RefWindow(inp.scalars[offset + from + 1], j, w) = j
                THEN inp.P[offset + from + 1] ELSE RefIdentity,
                RefBucketSum(offset, from + 1, to, j, w))

Bi1Expected(c, g) ==
    RefBucketSum(loc.batches[c.batch + 1].offset, g * WORKGROUP_SIZE,
                 Min((g + 1) * WORKGROUP_SIZE, loc.batches[c.batch + 1].size),
                 c.bucket, loc.BUCKET_WIDTH_BITS)

\* C24: after a Bi1 dispatch for bucket j over a batch of n pairs, for every
\* workgroup g below ceil(n / WORKGROUP_SIZE) the entry WGG[g] holds the sum of
\* the points of workgroup g whose window value equals j, the identity if
\* there is none.
C24_Bi1WritesEveryWorkgroupSum ==
    JustRan("Bi1") =>
        \A g \in 0 .. (cmds[gpu.next - 1].wg - 1) :
            PointRef(mem.WGG[g]) = Bi1Expected(cmds[gpu.next - 1], g)

\* the affine point of integer Jacobian coordinates <<X, Y, Z>>
TripleRef(t) == IF t[3] = 0 THEN RefIdentity ELSE JacobianRef(t[1], t[2], t[3])

\* sum of the entries from .. to - 1 of the buffer with P at the even and Q at
\* the odd indices
RECURSIVE RefRangeSum(_, _, _, _)
RefRangeSum(P, Q, from, to) ==
    IF from >= to THEN RefIdentity
    ELSE RefAdd(TripleRef(IF from % 2 = 0 THEN P ELSE Q),
                RefRangeSum(P, Q, from + 1, to))

\* C25: in a Bi2 dispatch with uniform n, workgroup g writes to WGG[g] the
\* group sum of all the values it loaded, WGG[g * WORKGROUP_SIZE ..
\* g * WORKGROUP_SIZE + WORKGROUP_SIZE - 1] with the identity for indices at
\* or above n; no loaded entry is left out.
C25_Bi2SumsEveryLoadedEntry ==
    (Applied("bi2_workgroup")
        /\ fv.args[4] < CeilDiv(fv.args[3], WORKGROUP_SIZE)) =>
        PointRef(fv.out[fv.args[4]])
            = RefRangeSum(fv.args[1], fv.args[2], fv.args[4] * WORKGROUP_SIZE,
                          Min((fv.args[4] + 1) * WORKGROUP_SIZE, fv.args[3]))

\* the buffer a dispatch leaves when its workgroups run in ascending order
AscendingResult ==
    ReduceDispatch([order |-> Ascending(CeilDiv(fv.args[3], WORKGROUP_SIZE)),
                    buf |-> Bi2Buffer(fv.args[1], fv.args[2])],
                   fv.args[3], fv.args[4], FALSE, "zero")

\* C26: the result of a Bi2, D or E dispatch with more than one workgroup
\* does not depend on the order in which the workgroups execute: whatever
\* the order, every entry of the buffer stands for the point the ascending
\* order leaves there.
C26_ResultIndependentOfOrder ==
    Applied("reduce_dispatch") =>
        \A g \in DOMAIN fv.out : PointRef(fv.out[g]) = PointRef(AscendingResult[g])

\* C27: in every pass that tree-reduces a shared array (Bi1, Bi2, C, D, E) a
\* workgroupBarrier executed by all the threads of the workgroup separates
\* each thread's write of its slot from any other thread's read of it.
C27_BarrierSeparatesAccesses ==
    fv.op = "workgroup" => ~fv.out.race /\ ~fv.out.partial

\* C28: for every window width and every bucket index j the host dispatches,
\* the limb indices the Bi1 window extraction reads lie within the limbs of
\* the scalar, 0 .. NumLimbs - 1.
C28_WindowLimbsInRange ==
    \A i \in DOMAIN cmds :
        cmds[i].pass = "Bi1" =>
            LimbsRead(cmds[i].bucket, loc.BUCKET_WIDTH_BITS) \subseteq 0 .. (NumLimbs - 1)

\* the pairs of the batch a Bi1 command reduces whose thread takes the branch
\* that stores the point, under the window test for the command's bucket
StoresPoint(c) ==
    {t \in 0 .. (loc.batches[c.batch + 1].size - 1) :
        \E oob \in {"zero", "clamp"} :
            WindowValue(q.k[t], c.bucket, loc.BUCKET_WIDTH_BITS, oob) = c.bucket}

C30_BucketsStartBatchAsIdentity ==
    (Running("A") /\ cmds[gpu.next].batch >= 1) =>
        \A j \in DOMAIN mem.B : PointRef(mem.B[j]) = RefIdentity

\* the threads of workgroup 0 of a Bi1 command whose global index is at or
\* past the number of pairs of the command's batch
TailThreads(c) ==
    {t \in 0 .. (WORKGROUP_SIZE - 1) :
        t >= loc.batches[c.batch + 1].size /\ t < c.wg * WORKGROUP_SIZE}

\* C31: only the pairs of the current batch contribute to it: every Bi1
\* thread whose global index is at or past currentBatchN contributes the
\* identity to the workgroup sum, never a zero-initialised entry or an entry
\* an earlier batch left in the input buffers.
C31_TailThreadsContributeIdentity ==
    Running("Bi1") =>
        \A t \in TailThreads(cmds[gpu.next]), oob \in OobModes :
            PointRef(Bi1Slot(mem, q, loc.maxChunkN, loc.BUCKET_WIDTH_BITS, oob, t))
                = RefIdentity

\* sum of the points F[0 .. n - 1] of a buffer
RECURSIVE RefBufferSum(_, _)
RefBufferSum(buf, n) ==
    IF n = 0 THEN RefIdentity
    ELSE RefAdd(RefBufferSum(buf, n - 1), PointRef(buf[n - 1]))

\* the Pippenger bucket-weighted sum: sum over j < n of j * bucket_j
RECURSIVE RefWeightedSum(_, _)
RefWeightedSum(buf, n) ==
    IF n = 0 THEN RefIdentity
    ELSE RefAdd(RefWeightedSum(buf, n - 1), RefMul(n - 1, PointRef(buf[n - 1])))

\* C32: the value passes C and D produce for a batch, the sum of the entries
\* Pass C writes to F, equals the Pippenger bucket-weighted sum, the sum over
\* j of j * bucket_j, for every bucket contents the pipeline reaches.
C32_PassCIsPippengerSum ==
    JustRan("C") =>
        RefBufferSum(mem.F, CeilDiv(BufLen(mem.B), WORKGROUP_SIZE))
            = RefWeightedSum(mem.B, BufLen(mem.B))

\* sum over idx in from .. to - 1 of (nb - idx) * bucket idx, for the buffer
\* with P at the even and Q at the odd indices
RECURSIVE RefScaledSum(_, _, _, _, _)
RefScaledSum(P, Q, nb, from, to) ==
    IF from >= to THEN RefIdentity
    ELSE RefAdd(RefMul(nb - from, TripleRef(IF from % 2 = 0 THEN P ELSE Q)),
                RefScaledSum(P, Q, nb, from + 1, to))

EDispatches == {i \in DOMAIN cmds : cmds[i].pass = "E"}
LastE == CHOOSE i \in EDispatches : \A k \in EDispatches : k <= i

\* the Pass E dispatches as the host encodes them: n = nb, ceil(nb / W), ...,
\* the last one alone with n <= W, then the two staging copies
PassEEncoded ==
    /\ EDispatches # {}
    /\ \A i \in EDispatches :
           /\ cmds[i].n = IF i - 1 \in EDispatches
                          THEN CeilDiv(cmds[i - 1].n, WORKGROUP_SIZE)
                          ELSE loc.numBatches
           /\ cmds[i].n <= WORKGROUP_SIZE <=> i = LastE
    /\ Len(cmds) = LastE + 2
    /\ cmds[LastE + 1].pass = "copyX"
    /\ cmds[LastE + 2].pass = "copyY"

\* C34: the Pass E loop issues dispatches with n = nb, ceil(nb / W), ... and
\* exactly one of them, the last, has n <= W, so that to_affine runs and the
\* final point is written exactly once: only in the last Pass E dispatch
\* does the thread that writes the final point run; the two staging copies
\* follow it.
C34_FinalPointWrittenOnce ==
    /\ Submitted => PassEEncoded
    /\ (Running("E") /\ FinalThreadRuns(cmds[gpu.next].wg, q.eN)) => gpu.next = LastE

\* position of a command in the order of encoding: batch, then Pass A, the
\* buckets (Bi1 before the Bi2 rounds of the same bucket), Pass C, Pass D;
\* then Pass E and the two copies
StageOf(pass) ==
    IF pass = "A" THEN 0 ELSE IF pass \in {"Bi1", "Bi2"} THEN 1
    ELSE IF pass = "C" THEN 2 ELSE 3
Rank(c) ==
    IF c.pass = "copyY" THEN 8 * loc.numBatches * loc.NUMBER_OF_BUCKETS + 2
    ELSE IF c.pass = "copyX" THEN 8 * loc.numBatches * loc.NUMBER_OF_BUCKETS + 1
    ELSE IF c.pass = "E" THEN 8 * loc.numBatches * loc.NUMBER_OF_BUCKETS
    ELSE 2 * ((4 * c.batch + StageOf(c.pass)) * loc.NUMBER_OF_BUCKETS
                  + (IF c.pass \in {"Bi1", "Bi2"} THEN c.bucket ELSE 0))
             + (IF c.pass = "Bi2" THEN 1 ELSE 0)

C36_WindowIsShiftAndMask ==
    Applied("window") =>
        fv.out = (fv.args[1] \div (2 ^ (fv.args[2] * fv.args[3]))) % (2 ^ fv.args[3])

\* a window that straddles two limbs and has a bit set in the part that comes
\* from the higher limb
C36_StraddlingWindow ==
    /\ Applied("window")
    /\ ((fv.args[2] * fv.args[3]) % LimbBits) + fv.args[3] > LimbBits
    /\ fv.out >= 2 ^ (LimbBits - ((fv.args[2] * fv.args[3]) % LimbBits))

\* the workgroups of the dispatch that runs next
WorkgroupsOf(c) == 0 .. (c.wg - 1)

\* C37: every index a pass uses to write a global storage buffer is below the
\* allocated element count of that buffer, for every input size, bucket width
\* and batch: Pass A writes P[idx] with idx < maxChunkN; Bi1 and Bi2 write
\* WGG[workgroup_idx] below ceil(maxChunkN / WORKGROUP_SIZE); Bi2 writes
\* B[bucket_idx] below 2^w; C and D write F[workgroup_idx] below
\* ceil(2^w / WORKGROUP_SIZE); D writes batch_final[batch_idx] and E writes
\* batch_final[workgroup_idx] below the number of batches.
C37_WritesInBounds ==
    (gpu.submits >= 1 /\ gpu.next <= Len(cmds)) =>
        LET c == cmds[gpu.next]
            workgroupsWGG == CeilDiv(loc.maxChunkN, WORKGROUP_SIZE)
            workgroupsF == CeilDiv(2 ^ loc.BUCKET_WIDTH_BITS, WORKGROUP_SIZE)
        IN  /\ c.pass = "A" =>
                  \A idx \in 0 .. (c.wg * WORKGROUP_SIZE - 1) :
                      idx < BufLen(q.Px) =>
                          idx < loc.maxChunkN /\ idx < BufLen(mem.PP)
            /\ c.pass = "Bi1" =>
                  \A g \in WorkgroupsOf(c) :
                      g * WORKGROUP_SIZE = 0 =>
                          g < workgroupsWGG /\ g < BufLen(mem.WGG)
            /\ c.pass = "Bi2" =>
                  /\ \A g \in WorkgroupsOf(c) :
                        g < CeilDiv(q.bi2N, WORKGROUP_SIZE) =>
                            g < workgroupsWGG /\ g < BufLen(mem.WGG)
                  /\ FinalThreadRuns(c.wg, q.bi2N) =>
                        /\ q.bucketIdx < 2 ^ loc.BUCKET_WIDTH_BITS
                        /\ q.bucketIdx < BufLen(mem.B)
            /\ c.pass = "C" =>
                  \A g \in WorkgroupsOf(c) : g < workgroupsF /\ g < BufLen(mem.F)
            /\ c.pass = "D" =>
                  /\ \A g \in WorkgroupsOf(c) :
                        g < CeilDiv(q.dN, WORKGROUP_SIZE) =>
                            g < workgroupsF /\ g < BufLen(mem.F)
                  /\ FinalThreadRuns(c.wg, q.dN) =>
                        /\ q.dBatch < loc.numBatches
                        /\ q.dBatch < BufLen(mem.batchFinal)
            /\ c.pass = "E" =>
                  \A g \in WorkgroupsOf(c) :
                      g < CeilDiv(q.eN, WORKGROUP_SIZE) =>
                          g < loc.numBatches /\ g < BufLen(mem.batchFinal)

\* Pass D of the last of several batches is about to write
\* batch_final[numBatches - 1], the last element of the buffer
C37_LastBatchFinalWrite ==
    /\ Running("D")
    /\ FinalThreadRuns(cmds[gpu.next].wg, q.dN)
    /\ loc.numBatches >= 2
    /\ q.dBatch = BufLen(mem.batchFinal) - 1

\* C38: to_projective of the affine pair (0, 0), which is what to_affine
\* returns for the identity, is a point with is_infinity (Z = 0):
\* to_projective(to_affine(I)) is the identity, and adding it to an
\* accumulator leaves the accumulator's point unchanged.
C38_ZeroPairIsIdentity ==
    (Applied("to_projective") /\ is_infinity_proj_256(ProjOf(fv.args[1]))) =>
        /\ fv.out.affine = Point256(ZeroLimbs, ZeroLimbs)
        /\ is_infinity_proj_256(fv.out.proj)
        /\ PointRef(fv.out.sum) = PointRef(ProjOf(fv.args[2]))

\* the tests of the page whose body throws or times out
FailedTests(tests) == {i \in DOMAIN tests : tests[i] \in {"throws", "times out"}}

\* C39: the command-line runner exits non-zero if and only if at least one
\* browser test failed: every test whose body throws or times out is counted
\* in the failure count the runner reads once testsFinished is true.
C39_ExitCodeReportsFailures ==
    Applied("run_tests") =>
        /\ OrZero(fv.out.testsFailures) = Cardinality(FailedTests(fv.args[1]))
        /\ (fv.out.exit # "exit 0") <=> (FailedTests(fv.args[1]) # {})

\* C40: the copies of the multiply-accumulate (mul_add_carry of helpers.ts,
\* mul_add_carry256 of arithmetic.wgsl, mul_add_carry of the bundled shader)
\* return the same (result, carry) for every (a, b, acc, carry).
C40_CopiesAgree ==
    Applied("mul_add_carry_copies") =>
        /\ fv.out.arithmetic = fv.out.helpers
        /\ fv.out.bundled = fv.out.helpers

====
